---- MODULE Spec2Model ----
(***************************************************************************)
(* TAPAS tokenizer (src/transformers/tokenization_tapas.py): table         *)
(* linearisation, budget fitting, numeric features and answer alignment,   *)
(* modelled as the steps of one batch call of TapasTokenizer.              *)
(*                                                                         *)
(* A text is a sequence of whitespace-separated words; indexes that the    *)
(* code keeps 0-based (row_index, column_index, token_index, position,     *)
(* answer coordinates) are 0-based here as well, and sequences are indexed *)
(* from 1, so the code's cell[i] is cell[i + 1] here.                      *)
(***************************************************************************)
EXTENDS Integers, Sequences, FiniteSets, TLC

VARIABLES
    config,                    \* attributes set by TapasTokenizer.__init__
    call,                      \* arguments of the batch call: table, queries, answers
    tokenized_table,           \* TokenizedTable of the call
    num_rows, num_columns,     \* results of _get_num_rows / _get_num_columns
    position,                  \* index of the query being processed
    fit,                       \* [num_rows, num_tokens] chosen by _to_trimmed_features
    serialized_example,        \* SerializedExample of the current query
    features,                  \* feature dict of the current query
    columns_to_numeric_values, \* dict built by _add_numeric_column_ranks
    cell_indices_to_relations, \* dict built by _add_numeric_relations
    features_examples,         \* features per finished position
    position_to_label_ids,     \* label ids per finished position
    encoded_inputs,            \* the returned batch
    pc,                        \* place reached inside the call
    raised,                    \* the exception that ended the call, "" if none
    cell_classification_threshold, \* argument of convert_logits_to_predictions
    logits,                    \* logits of the example being decoded
    num_decoded,               \* examples convert_logits_to_predictions has been through
    answer_coordinates_batch,  \* predictions collected by convert_logits_to_predictions
    trim_rows                  \* num_rows inside the loop of _to_trimmed_features

vars == <<config, call, tokenized_table, num_rows, num_columns, position, fit,
          serialized_example, features, columns_to_numeric_values,
          cell_indices_to_relations, features_examples, position_to_label_ids,
          encoded_inputs, pc, raised, cell_classification_threshold, logits,
          num_decoded, answer_coordinates_batch, trim_rows>>

\* the variables of convert_logits_to_predictions
decoder_vars ==
    <<cell_classification_threshold, logits, num_decoded, answer_coordinates_batch>>

(***************************************************************************)
(* Bounds of the explored inputs.                                          *)
(***************************************************************************)
MaxRows == 2
MaxCols == 2
MaxQueries == 2
MaxNumRows == 3
MaxModelLen == 9
MaxDecodeLen == 6

\* Optional values: None is the empty sequence, a present value v is <<v>>.
None == <<>>
Some(v) == <<v>>

Max(a, b) == IF a >= b THEN a ELSE b
Min(a, b) == IF a <= b THEN a ELSE b

RECURSIVE Concat(_)
Concat(seqs) == IF seqs = <<>> THEN <<>> ELSE Head(seqs) \o Concat(Tail(seqs))

(***************************************************************************)
(* Tokens.                                                                 *)
(***************************************************************************)
cls_token == "[CLS]"
sep_token == "[SEP]"

\* WordpieceTokenizer.tokenize on one word of the modelled vocabulary.
WordPieces(word) ==
    CASE word = "ab" -> <<"a", "##b">>
      [] word = "2010s" -> <<"2010", "##s">>
      [] OTHER -> <<word>>

\* token.startswith("##")
_is_inner_wordpiece(token) == token \in {"##b", "##s"}

\* TapasTokenizer._tokenize: the word pieces of every word, in order.
tokenize(text) == Concat([i \in 1..Len(text) |-> WordPieces(text[i])])

\* vocab lookup of convert_tokens_to_ids
convert_tokens_to_ids(tokens) ==
    [i \in 1..Len(tokens) |->
        CASE tokens[i] = cls_token -> 101
          [] tokens[i] = sep_token -> 102
          [] tokens[i] = "x" -> 11
          [] tokens[i] = "a" -> 12
          [] tokens[i] = "##b" -> 13
          [] tokens[i] = "3" -> 14
          [] tokens[i] = "7" -> 15
          [] tokens[i] = "5" -> 16
          [] tokens[i] = "may" -> 17
          [] tokens[i] = "2010" -> 18
          [] tokens[i] = "##s" -> 19
          [] OTHER -> 100]

(***************************************************************************)
(* Table tokenizer and coordinate indexer.                                 *)
(***************************************************************************)
TokenCoordinates(r, c, t) == [row_index |-> r, column_index |-> c, token_index |-> t]

\* the coordinates of the tokens of one tokenized row, columns outer, tokens inner
RowCoordinates(row, r) ==
    Concat([c \in 1..Len(row) |->
        [t \in 1..Len(row[c]) |-> TokenCoordinates(r, c - 1, t - 1)]])

_tokenize_table(tab, strip_column_names) ==
    LET header == [c \in 1..Len(tab.columns) |->
                      IF strip_column_names THEN tokenize(<<>>)
                      ELSE tokenize(tab.columns[c])]
        cells == [r \in 1..Len(tab.rows) |->
                      [c \in 1..Len(tab.rows[r]) |-> tokenize(tab.rows[r][c])]]
        tokenized_rows == <<header>> \o cells
    IN  [rows |-> tokenized_rows,
         selected_tokens |->
             Concat([r \in 1..Len(tokenized_rows) |->
                        RowCoordinates(tokenized_rows[r], r - 1)])]

(***************************************************************************)
(* Budget fitter.                                                          *)
(***************************************************************************)
_question_encoding_cost(question_tokens) == Len(question_tokens) + 2

_get_token_budget(question_tokens, model_max_length) ==
    model_max_length - _question_encoding_cost(question_tokens)

\* faulty variant of the while loop of _get_table_values: no walk back, the
\* token's own index is tested against the cap
WordBeginIndex_no_walk(cell, word_begin_index) == word_begin_index

\* the while loop of _get_table_values: walk back to the word's first piece
RECURSIVE WordBeginIndex(_, _)
WordBeginIndex(cell, word_begin_index) ==
    IF word_begin_index >= 0 /\ _is_inner_wordpiece(cell[word_begin_index + 1])
    THEN WordBeginIndex(cell, word_begin_index - 1)
    ELSE word_begin_index

\* faulty variant of the test of _get_table_values: the header row is skipped
\* as well, only data rows are emitted
TableValueSelected_data_rows_only(tt, tc, ncols, nrows, ntokens) ==
    /\ ~(tc.row_index >= nrows + 1)
    /\ ~(tc.row_index = 0)
    /\ ~(tc.column_index >= ncols)
    /\ ~(WordBeginIndex(tt.rows[tc.row_index + 1][tc.column_index + 1], tc.token_index)
            >= ntokens)

\* faulty variant of the test of _get_table_values: the token's own index is
\* compared with the cap, whatever word it belongs to
TableValueSelected_own_index(tt, tc, ncols, nrows, ntokens) ==
    /\ ~(tc.row_index >= nrows + 1)
    /\ ~(tc.column_index >= ncols)
    /\ ~(tc.token_index >= ntokens)

\* the test _get_table_values applies to one token coordinate
TableValueSelected(tt, tc, ncols, nrows, ntokens) ==
    /\ ~(tc.row_index >= nrows + 1)
    /\ ~(tc.column_index >= ncols)
    /\ ~(WordBeginIndex(tt.rows[tc.row_index + 1][tc.column_index + 1], tc.token_index)
            >= ntokens)

\* faulty variant of _get_table_values: the column id is the 0-based column index
_get_table_values_column_index(tt, ncols, nrows, ntokens) ==
    LET kept == SelectSeq(tt.selected_tokens,
                          LAMBDA tc : TableValueSelected(tt, tc, ncols, nrows, ntokens))
    IN  [i \in 1..Len(kept) |->
            [token |-> tt.rows[kept[i].row_index + 1][kept[i].column_index + 1]
                                                     [kept[i].token_index + 1],
             column_id |-> kept[i].column_index,
             row_id |-> kept[i].row_index]]

_get_table_values(tt, ncols, nrows, ntokens) ==
    LET kept == SelectSeq(tt.selected_tokens,
                          LAMBDA tc : TableValueSelected(tt, tc, ncols, nrows, ntokens))
    IN  [i \in 1..Len(kept) |->
            [token |-> tt.rows[kept[i].row_index + 1][kept[i].column_index + 1]
                                                     [kept[i].token_index + 1],
             column_id |-> kept[i].column_index + 1,
             row_id |-> kept[i].row_index]]

_get_table_cost(tt, ncols, nrows, ntokens) ==
    Len(_get_table_values(tt, ncols, nrows, ntokens))

RECURSIVE SeqMaxTokenIndex(_)
SeqMaxTokenIndex(tcs) ==
    IF tcs = <<>> THEN 0
    ELSE Max(Head(tcs).token_index + 1, SeqMaxTokenIndex(Tail(tcs)))

\* third component of _get_table_boundaries
_get_table_boundaries_tokens(tt) == SeqMaxTokenIndex(tt.selected_tokens)

\* faulty variant of the for loop of _get_max_num_tokens: the comparison of the
\* cost with the budget is inverted (cost < token_budget)
RECURSIVE MaxNumTokensLoop_inverted(_, _, _, _, _, _)
MaxNumTokensLoop_inverted(tt, ncols, nrows, token_budget, max_num_tokens, k) ==
    IF _get_table_cost(tt, ncols, nrows, k + 1) < token_budget THEN k
    ELSE IF k = max_num_tokens THEN k
    ELSE MaxNumTokensLoop_inverted(tt, ncols, nrows, token_budget, max_num_tokens, k + 1)

\* the for loop of _get_max_num_tokens: the value of num_tokens when it ends
RECURSIVE MaxNumTokensLoop(_, _, _, _, _, _)
MaxNumTokensLoop(tt, ncols, nrows, token_budget, max_num_tokens, k) ==
    IF _get_table_cost(tt, ncols, nrows, k + 1) > token_budget THEN k
    ELSE IF k = max_num_tokens THEN k
    ELSE MaxNumTokensLoop(tt, ncols, nrows, token_budget, max_num_tokens, k + 1)

_get_max_num_tokens(cfg, question_tokens, tt, ncols, nrows) ==
    LET token_budget == _get_token_budget(question_tokens, cfg.model_max_length)
        boundary == _get_table_boundaries_tokens(tt)
        max_num_tokens ==
            IF cfg.cell_trim_length >= 0 /\ boundary > cfg.cell_trim_length
            THEN cfg.cell_trim_length ELSE boundary
        k == MaxNumTokensLoop(tt, ncols, nrows, token_budget, max_num_tokens, 0)
    IN  IF k < max_num_tokens /\ (cfg.cell_trim_length >= 0 \/ k = 0)
        THEN None
        ELSE Some(k)

\* the while loop of _to_trimmed_features: the rows and the cap it leaves with,
\* or None when it raises "Sequence too long"
RECURSIVE TrimLoop(_, _, _, _, _)
TrimLoop(cfg, question_tokens, tt, ncols, nrows) ==
    LET k == _get_max_num_tokens(cfg, question_tokens, tt, ncols, nrows)
    IN  IF k /= None THEN Some([num_rows |-> nrows, num_tokens |-> k[1]])
        ELSE IF ~cfg.drop_rows_to_fit \/ nrows = 0 THEN None
        ELSE TrimLoop(cfg, question_tokens, tt, ncols, nrows - 1)

(***************************************************************************)
(* Serializer.                                                             *)
(***************************************************************************)
_serialize_text(question_tokens) ==
    [tokens |-> <<cls_token>> \o question_tokens,
     segment_ids |-> [i \in 1..Len(question_tokens) + 1 |-> 0],
     column_ids |-> [i \in 1..Len(question_tokens) + 1 |-> 0],
     row_ids |-> [i \in 1..Len(question_tokens) + 1 |-> 0]]

\* faulty variant of _serialize: [SEP] is tagged as the first token of the table
_serialize_sep_in_table(question_tokens, tt, ncols, nrows, ntokens) ==
    LET text == _serialize_text(question_tokens)
        values == _get_table_values(tt, ncols, nrows, ntokens)
    IN  [tokens |-> text.tokens \o <<sep_token>> \o
                        [i \in 1..Len(values) |-> values[i].token],
         segment_ids |-> text.segment_ids \o <<1>> \o [i \in 1..Len(values) |-> 1],
         column_ids |-> text.column_ids \o <<0>> \o
                        [i \in 1..Len(values) |-> values[i].column_id],
         row_ids |-> text.row_ids \o <<0>> \o
                        [i \in 1..Len(values) |-> values[i].row_id]]

_serialize(question_tokens, tt, ncols, nrows, ntokens) ==
    LET text == _serialize_text(question_tokens)
        values == _get_table_values(tt, ncols, nrows, ntokens)
    IN  [tokens |-> text.tokens \o <<sep_token>> \o
                        [i \in 1..Len(values) |-> values[i].token],
         segment_ids |-> text.segment_ids \o <<0>> \o [i \in 1..Len(values) |-> 1],
         column_ids |-> text.column_ids \o <<0>> \o
                        [i \in 1..Len(values) |-> values[i].column_id],
         row_ids |-> text.row_ids \o <<0>> \o
                        [i \in 1..Len(values) |-> values[i].row_id]]

(***************************************************************************)
(* Numeric / date parser.  Spans are character offsets into the text whose *)
(* words are joined by one blank (normalize_for_match).                    *)
(***************************************************************************)
NumericValueFloat(v) == [float_value |-> Some(v), date |-> None]
NumericValueDate(y, m, d) ==
    [float_value |-> None, date |-> Some([year |-> y, month |-> m, day |-> d])]

\* len(word)
WordLen(word) ==
    CASE word \in {"x", "3", "5", "7"} -> 1
      [] word = "ab" -> 2
      [] word = "may" -> 3
      [] word \in {"2010", "five", "1600"} -> 4
      [] word = "2010s" -> 5
      [] OTHER -> 1

\* the digits of a word that is a numeral, read as a number
Numeral(word) ==
    CASE word = "3" -> Some(3)
      [] word = "5" -> Some(5)
      [] word = "7" -> Some(7)
      [] word = "1600" -> Some(1600)
      [] word = "2010" -> Some(2010)
      [] OTHER -> None

\* _NUMBER_PATTERN.finditer inside one word: length and _parse_number of the match
NumberMatch(word) ==
    IF Numeral(word) /= None THEN Some([len |-> WordLen(word), value |-> Numeral(word)[1]])
    ELSE IF word = "2010s" THEN Some([len |-> 4, value |-> 2010])
    ELSE None

\* _parse_number on a whole unigram
_parse_number(word) == Numeral(word)

\* index of a word in _NUMBER_WORDS / _ORDINAL_WORDS
NumberWord(word) == IF word = "five" THEN Some(5) ELSE None

_MIN_YEAR == 1700
_MAX_YEAR == 2016
_MAX_DATE_NGRAM_SIZE == 5

\* month of a month name accepted by strptime %B / %b
MonthOf(word) == IF word = "may" THEN Some(5) ELSE None

\* day of a word accepted by strptime %d
DayOf(word) == IF word \in {"3", "5", "7"} THEN Numeral(word) ELSE None

\* year of a word accepted by strptime %Y, kept only inside [_MIN_YEAR, _MAX_YEAR]
\* (_get_numeric_value_from_date raises outside it and _parse_date goes on)
YearOf(word) ==
    IF word \in {"1600", "2010"} /\ Numeral(word)[1] >= _MIN_YEAR
                                 /\ Numeral(word)[1] <= _MAX_YEAR
    THEN Numeral(word) ELSE None

\* _parse_date on the text of an n-gram: the first pattern of _DATE_PATTERNS that
\* parses it, with the fields of its mask
_parse_date(words) ==
    CASE Len(words) = 1 /\ MonthOf(words[1]) /= None ->
            Some(NumericValueDate(None, MonthOf(words[1]), None))
      [] Len(words) = 1 /\ YearOf(words[1]) /= None ->
            Some(NumericValueDate(YearOf(words[1]), None, None))
      [] Len(words) = 1 /\ words[1] = "2010s" ->
            Some(NumericValueDate(Some(2010), None, None))
      [] Len(words) = 2 /\ MonthOf(words[1]) /= None /\ YearOf(words[2]) /= None ->
            Some(NumericValueDate(YearOf(words[2]), MonthOf(words[1]), None))
      [] Len(words) = 2 /\ MonthOf(words[1]) /= None /\ DayOf(words[2]) /= None ->
            Some(NumericValueDate(None, MonthOf(words[1]), DayOf(words[2])))
      [] Len(words) = 2 /\ DayOf(words[1]) /= None /\ MonthOf(words[2]) /= None ->
            Some(NumericValueDate(None, MonthOf(words[2]), DayOf(words[1])))
      [] Len(words) = 3 /\ DayOf(words[1]) /= None /\ MonthOf(words[2]) /= None
                        /\ YearOf(words[3]) /= None ->
            Some(NumericValueDate(YearOf(words[3]), MonthOf(words[2]), DayOf(words[1])))
      [] OTHER -> None

\* offset of the first character of word i of the text
RECURSIVE WordStart(_, _)
WordStart(text, i) ==
    IF i = 1 THEN 0 ELSE WordStart(text, i - 1) + WordLen(text[i - 1]) + 1

WordEnd(text, i) == WordStart(text, i) + WordLen(text[i])

\* a set with at most one element, as a sequence
OneOrNone(set) == IF set = {} THEN <<>> ELSE <<CHOOSE x \in set : TRUE>>

\* the spans of the matches of _NUMBER_PATTERN that _parse_number accepts, each
\* with its number
NumberSpans(text) ==
    {[span |-> <<WordStart(text, i), WordStart(text, i) + m[1].len>>, value |-> m[1].value] :
        <<i, m>> \in {x \in {<<j, NumberMatch(text[j])>> : j \in 1..Len(text)} : x[2] /= None}}

\* the unigrams (get_all_spans with max_ngram_length 1), each with its word
UnigramSpans(text) ==
    {[span |-> <<WordStart(text, i), WordEnd(text, i)>>, word |-> text[i]] :
        i \in 1..Len(text)}

\* the n-grams (get_all_spans with _MAX_DATE_NGRAM_SIZE) that _parse_date accepts,
\* each with its date
DateSpans(text) ==
    {[span |-> <<WordStart(text, x[1]), WordEnd(text, x[2])>>, value |-> x[3][1]] :
        x \in {y \in {<<i, j, _parse_date(SubSeq(text, i, j))>> :
                        <<i, j>> \in {n \in (1..Len(text)) \X (1..Len(text)) :
                                        n[1] <= n[2]
                                        /\ n[2] - n[1] + 1 <= _MAX_DATE_NGRAM_SIZE}} :
                 y[3] /= None}}

\* the values the second pass of parse_text appends for a unigram
UnigramValues(word) ==
    (IF _parse_number(word) /= None THEN <<NumericValueFloat(_parse_number(word)[1])>>
     ELSE <<>>)
    \o (IF NumberWord(word) /= None THEN <<NumericValueFloat(NumberWord(word)[1])>>
        ELSE <<>>)

\* the values of one span, in the order the three passes append them
SpanValues(span, number_spans, unigram_spans, date_spans) ==
    OneOrNone({NumericValueFloat(n.value) : n \in {x \in number_spans : x.span = span}})
    \o Concat(OneOrNone({UnigramValues(u.word) :
                u \in {x \in unigram_spans :
                         x.span = span /\ span \notin {n.span : n \in number_spans}}}))
    \o OneOrNone({d.value : d \in {x \in date_spans : x.span = span}})

\* the dict of a set of <<key, value>> pairs with distinct keys
DictOfPairs(pairs) ==
    [key \in {p[1] : p \in pairs} |-> (CHOOSE p \in pairs : p[1] = key)[2]]

SpanDictOf(number_spans, unigram_spans, date_spans) ==
    DictOfPairs({p \in {<<span, SpanValues(span, number_spans, unigram_spans, date_spans)>> :
                           span \in {x.span : x \in number_spans}
                                       \cup {x.span : x \in unigram_spans}
                                       \cup {x.span : x \in date_spans}} :
                    p[2] /= <<>>})

\* span_dict of parse_text: the candidate spans that have a value
SpanDict(text) == SpanDictOf(NumberSpans(text), UnigramSpans(text), DateSpans(text))

\* _get_span_length_key, compared as sorted(..., reverse=True) compares it
SpanBefore(a, b) ==
    \/ a[2] - a[1] > b[2] - b[1]
    \/ a[2] - a[1] = b[2] - b[1] /\ -a[1] > -b[1]

\* the selection loop of parse_text over the spans not yet visited
RECURSIVE SelectSpans(_, _)
SelectSpans(left, selected) ==
    IF left = {} THEN selected
    ELSE LET span == CHOOSE s \in left : \A o \in left \ {s} : SpanBefore(s, o)
         IN  IF \E sel \in selected : sel[1] <= span[1] /\ span[2] <= sel[2]
             THEN SelectSpans(left \ {span}, selected)
             ELSE SelectSpans(left \ {span}, selected \cup {span})

\* a set of spans with distinct starts, sorted by start
RECURSIVE SortByStart(_)
SortByStart(spans) ==
    IF spans = {} THEN <<>>
    ELSE LET first == CHOOSE s \in spans : \A o \in spans : s[1] <= o[1]
         IN  <<first>> \o SortByStart(spans \ {first})

\* the result list of parse_text from span_dict and the selected spans in order
NumericValueSpans(span_dict, selected_spans) ==
    [i \in 1..Len(selected_spans) |->
        [begin_index |-> selected_spans[i][1],
         end_index |-> selected_spans[i][2],
         values |-> span_dict[selected_spans[i]]]]

SelectedSpans(span_dict) == SortByStart(SelectSpans(DOMAIN span_dict, {}))

ParseSpanDict(span_dict) == NumericValueSpans(span_dict, SelectedSpans(span_dict))

parse_text(text) == ParseSpanDict(SpanDict(text))

\* itertools.chain of the values of the spans
ChainValues(numeric_spans) ==
    Concat([i \in 1..Len(numeric_spans) |-> numeric_spans[i].values])

_get_numeric_values(text) == ChainValues(parse_text(text))

\* dict row_index -> values of the column, rows 0-based
_parse_column_values(tab, col_index) ==
    [row_index \in 0..Len(tab.rows) - 1 |->
        _get_numeric_values(tab.rows[row_index + 1][col_index + 1])]

(***************************************************************************)
(* Sort-key unifier and relations.                                         *)
(***************************************************************************)
NUMBER_TYPE == "number"
DATE_TYPE == "date"

EQ == 7
LT == 8
GT == 9

_get_value_type(numeric_value) ==
    IF numeric_value.float_value /= None THEN NUMBER_TYPE ELSE DATE_TYPE

\* a float for a number, the triple (year, month, day) of optional fields for a date
_get_value_as_primitive_value(numeric_value) ==
    IF numeric_value.float_value /= None THEN numeric_value.float_value[1]
    ELSE <<numeric_value.date[1].year, numeric_value.date[1].month,
           numeric_value.date[1].day>>

_get_all_types(numeric_values) ==
    {_get_value_type(numeric_values[i]) : i \in 1..Len(numeric_values)}

\* faulty variant: an empty valid_indexes is not rejected
get_numeric_sort_key_fn_no_common_check(numeric_values) ==
    LET value_types == _get_all_types(numeric_values)
        valid_indexes ==
            {index \in 0..2 : \A i \in 1..Len(numeric_values) :
                _get_value_as_primitive_value(numeric_values[i])[index + 1] /= None}
    IN  IF Cardinality(value_types) /= 1 THEN None
        ELSE IF value_types = {NUMBER_TYPE} THEN Some([type |-> NUMBER_TYPE, valid_indexes |-> {}])
        ELSE Some([type |-> DATE_TYPE, valid_indexes |-> valid_indexes])

\* The key function is described by its type and, for dates, by valid_indexes
\* (0 = year, 1 = month, 2 = day); None stands for the ValueError.
get_numeric_sort_key_fn(numeric_values) ==
    LET value_types == _get_all_types(numeric_values)
        valid_indexes ==
            {index \in 0..2 : \A i \in 1..Len(numeric_values) :
                _get_value_as_primitive_value(numeric_values[i])[index + 1] /= None}
    IN  IF Cardinality(value_types) /= 1 THEN None
        ELSE IF value_types = {NUMBER_TYPE} THEN Some([type |-> NUMBER_TYPE, valid_indexes |-> {}])
        ELSE IF valid_indexes = {} THEN None
        ELSE Some([type |-> DATE_TYPE, valid_indexes |-> valid_indexes])

\* faulty variant: valid_indexes iterated in descending order
RECURSIVE SortedIndexes_descending(_)
SortedIndexes_descending(indexes) ==
    IF indexes = {} THEN <<>>
    ELSE LET most == CHOOSE i \in indexes : \A j \in indexes : i >= j
         IN  <<most>> \o SortedIndexes_descending(indexes \ {most})

\* valid_indexes in the order a set of small ints is iterated: ascending
RECURSIVE SortedIndexes(_)
SortedIndexes(indexes) ==
    IF indexes = {} THEN <<>>
    ELSE LET least == CHOOSE i \in indexes : \A j \in indexes : i <= j
         IN  <<least>> \o SortedIndexes(indexes \ {least})

\* applying the returned key function: _get_value_as_primitive_value or _sort_key_fn
ApplyKey(key_fn, numeric_value) ==
    IF key_fn.type = NUMBER_TYPE THEN _get_value_as_primitive_value(numeric_value)
    ELSE LET value == _get_value_as_primitive_value(numeric_value)
             order == SortedIndexes(key_fn.valid_indexes)
         IN  [i \in 1..Len(order) |-> value[order[i] + 1][1]]

\* Python's < on tuples of equal length
RECURSIVE TupleLess(_, _)
TupleLess(a, b) ==
    IF a = <<>> THEN FALSE
    ELSE IF Head(a) /= Head(b) THEN Head(a) < Head(b)
    ELSE TupleLess(Tail(a), Tail(b))

\* Python's < on two keys of one key function
KeyLess(key_fn, a, b) == IF key_fn.type = NUMBER_TYPE THEN a < b ELSE TupleLess(a, b)

\* faulty variant of get_numeric_relation: LT and GT are swapped
get_numeric_relation_swapped(value, other_value, sort_key_fn) ==
    LET v == ApplyKey(sort_key_fn, value)
        o == ApplyKey(sort_key_fn, other_value)
    IN  IF v = o THEN Some(EQ)
        ELSE IF KeyLess(sort_key_fn, v, o) THEN Some(GT)
        ELSE IF KeyLess(sort_key_fn, o, v) THEN Some(LT)
        ELSE None

get_numeric_relation(value, other_value, sort_key_fn) ==
    LET v == ApplyKey(sort_key_fn, value)
        o == ApplyKey(sort_key_fn, other_value)
    IN  IF v = o THEN Some(EQ)
        ELSE IF KeyLess(sort_key_fn, v, o) THEN Some(LT)
        ELSE IF KeyLess(sort_key_fn, o, v) THEN Some(GT)
        ELSE None

(***************************************************************************)
(* Numeric feature builder.                                                *)
(***************************************************************************)
\* dict row_index -> first value, for the rows that have one
_get_column_values(table_numeric_values) ==
    [row_index \in {r \in DOMAIN table_numeric_values : Len(table_numeric_values[r]) /= 0}
        |-> table_numeric_values[row_index][1]]

\* the indexes (0-based, as the code yields them) of the tokens of a cell
_get_cell_token_indexes(column_ids, row_ids, column_id, row_id) ==
    {index \in 0..Len(column_ids) - 1 :
        column_ids[index + 1] - 1 = column_id /\ row_ids[index + 1] - 1 = row_id}

\* the values of a dict in the order of its keys
RECURSIVE DictValues(_, _)
DictValues(dict, keys) ==
    IF keys = {} THEN <<>>
    ELSE LET least == CHOOSE k \in keys : \A j \in keys : k <= j
         IN  <<dict[least]>> \o DictValues(dict, keys \ {least})

\* sorted(keys) of the keys of one key function
RECURSIVE SortedKeys(_, _)
SortedKeys(key_fn, keys) ==
    IF keys = {} THEN <<>>
    ELSE LET least == CHOOSE k \in keys : \A j \in keys \ {k} : KeyLess(key_fn, k, j)
         IN  <<least>> \o SortedKeys(key_fn, keys \ {least})

\* columns_to_numeric_values as _add_numeric_column_ranks fills it
ColumnsToNumericValues(tab) ==
    [col_index \in 0..Len(tab.columns) - 1 |->
        _get_column_values(_parse_column_values(tab, col_index))]

\* faulty variant of the ranking loop of _add_numeric_column_ranks: the rank is
\* the 0-based position in unique_values
RanksOfColumn_rank_from_zero(table_numeric_values, key_fn, unique_values) ==
    {<<x[1], x[2], Len(unique_values) - x[2]>> :
        x \in {y \in (DOMAIN table_numeric_values) \X (0..Len(unique_values) - 1) :
                 unique_values[y[2] + 1] = ApplyKey(key_fn, table_numeric_values[y[1]])}}

\* the ranking loop of _add_numeric_column_ranks over enumerate(unique_values):
\* the set of <<row_index, rank + 1, len(unique_values) - rank>>
RanksOfColumn(table_numeric_values, key_fn, unique_values) ==
    {<<x[1], x[2] + 1, Len(unique_values) - x[2]>> :
        x \in {y \in (DOMAIN table_numeric_values) \X (0..Len(unique_values) - 1) :
                 unique_values[y[2] + 1] = ApplyKey(key_fn, table_numeric_values[y[1]])}}

\* the loop body of _add_numeric_column_ranks for one column; empty for a column
\* without values and for a column whose key function raises ValueError
ColumnRanks(table_numeric_values) ==
    UNION {UNION {RanksOfColumn(table_numeric_values, key_fn[1], unique_values) :
                    unique_values \in
                        {SortedKeys(key_fn[1],
                                    {ApplyKey(key_fn[1], table_numeric_values[r]) :
                                        r \in DOMAIN table_numeric_values})}} :
           key_fn \in {f \in {get_numeric_sort_key_fn(
                                DictValues(table_numeric_values,
                                           DOMAIN table_numeric_values))} :
                         DOMAIN table_numeric_values /= {} /\ f /= None}}

\* faulty variant: the ValueError of a column ends the loop over the columns, so
\* the columns after it get no ranks
_add_numeric_column_ranks_break(column_ids, row_ids, tab, ctnv) ==
    LET table_ranks == UNION {{<<c, x[1], x[2], x[3]>> : x \in ColumnRanks(ctnv[c])} :
                                c \in {d \in 0..Len(tab.columns) - 1 :
                                         \A b \in 0..d :
                                            DOMAIN ctnv[b] = {} \/ ColumnRanks(ctnv[b]) /= {}}}
    IN  [ranks |-> [i \in 1..Len(column_ids) |->
                      LET hit == {x \in table_ranks :
                                    column_ids[i] - 1 = x[1] /\ row_ids[i] - 1 = x[2]}
                      IN  IF hit = {} THEN 0 ELSE (CHOOSE x \in hit : TRUE)[3]],
         inv_ranks |-> [i \in 1..Len(column_ids) |->
                      LET hit == {x \in table_ranks :
                                    column_ids[i] - 1 = x[1] /\ row_ids[i] - 1 = x[2]}
                      IN  IF hit = {} THEN 0 ELSE (CHOOSE x \in hit : TRUE)[4]]]

\* [ranks, inv_ranks] of _add_numeric_column_ranks, ctnv being the
\* columns_to_numeric_values it builds on the way
_add_numeric_column_ranks(column_ids, row_ids, tab, ctnv) ==
    LET table_ranks == UNION {{<<c, x[1], x[2], x[3]>> : x \in ColumnRanks(ctnv[c])} :
                                c \in 0..Len(tab.columns) - 1}
    IN  [ranks |-> [i \in 1..Len(column_ids) |->
                      LET hit == {x \in table_ranks :
                                    column_ids[i] - 1 = x[1] /\ row_ids[i] - 1 = x[2]}
                      IN  IF hit = {} THEN 0 ELSE (CHOOSE x \in hit : TRUE)[3]],
         inv_ranks |-> [i \in 1..Len(column_ids) |->
                      LET hit == {x \in table_ranks :
                                    column_ids[i] - 1 = x[1] /\ row_ids[i] - 1 = x[2]}
                      IN  IF hit = {} THEN 0 ELSE (CHOOSE x \in hit : TRUE)[4]]]

\* TapasTokenizer._get_numeric_sort_key_fn
_get_numeric_sort_key_fn(table_numeric_values, value) ==
    IF DOMAIN table_numeric_values = {} THEN None
    ELSE get_numeric_sort_key_fn(
            DictValues(table_numeric_values, DOMAIN table_numeric_values) \o <<value>>)

\* the values of the question, every value of every span
add_numeric_values_to_question(question) == _get_numeric_values(question)

\* the innermost loop of _add_numeric_relations: the set of <<row_index, relation>>
RelationsWithKey(value, table_numeric_values, sort_key_fn) ==
    {<<x[1], x[2][1]>> :
        x \in {y \in {<<r, get_numeric_relation(value, table_numeric_values[r], sort_key_fn)>> :
                        r \in DOMAIN table_numeric_values} : y[2] /= None}}

\* _add_numeric_relations for one question value and one column
ColumnRelations(value, table_numeric_values) ==
    UNION {RelationsWithKey(value, table_numeric_values, sort_key_fn[1]) :
           sort_key_fn \in {f \in {_get_numeric_sort_key_fn(table_numeric_values, value)} :
                              f /= None}}

\* the dict built from the set of <<column_index, row_index, relation>>
RelationsDict(found) ==
    [cr \in {<<x[1], x[2]>> : x \in found} |->
        {x[3] : x \in {y \in found : y[1] = cr[1] /\ y[2] = cr[2]}}]

\* the elements of a sequence
Range(seq) == {seq[i] : i \in 1..Len(seq)}

\* cell_indices_to_relations: (column_index, row_index) -> set of relations;
\* only the cells that got a relation are keys
CellIndicesToRelations(question, tab, ctnv) ==
    RelationsDict(
        UNION {UNION {{<<c, x[1], x[2]>> : x \in ColumnRelations(value, ctnv[c])} :
                         c \in 0..Len(tab.columns) - 1} :
               value \in Range(add_numeric_values_to_question(question))})

RECURSIVE Pow2(_)
Pow2(n) == IF n = 0 THEN 1 ELSE 2 * Pow2(n - 1)

\* faulty variant: the bit of one relation overwrites the index instead of being
\* added to it
RelationSetIndex_overwritten(relations) ==
    IF relations = {} THEN 0 ELSE Pow2((CHOOSE x \in relations : TRUE) - EQ)

\* relation_set_index of a set of relations
RECURSIVE RelationSetIndex(_)
RelationSetIndex(relations) ==
    IF relations = {} THEN 0
    ELSE LET relation == CHOOSE x \in relations : TRUE
         IN  Pow2(relation - EQ) + RelationSetIndex(relations \ {relation})

_add_numeric_relations(column_ids, row_ids, citr) ==
    [i \in 1..Len(column_ids) |->
        LET cells == {cr \in DOMAIN citr :
                        i - 1 \in _get_cell_token_indexes(column_ids, row_ids, cr[1], cr[2])}
        IN  IF cells = {} THEN 0
            ELSE RelationSetIndex(citr[CHOOSE cr \in cells : TRUE])]

\* floats of the features: NaN is None, a float v is Some(v)
NaN == None

\* _add_numeric_values looks every row of a column that has values up in the
\* column's dict: a row without a value is a KeyError
NumericValuesKeyError(tab, ctnv) ==
    \E c \in 0..Len(tab.columns) - 1 :
        DOMAIN ctnv[c] /= {} /\ \E r \in 0..Len(tab.rows) - 1 : r \notin DOMAIN ctnv[c]

_add_numeric_values(tab, column_ids, row_ids, ctnv, model_max_length) ==
    [i \in 1..model_max_length |->
        LET cells == {cr \in (0..Len(tab.columns) - 1) \X (0..Len(tab.rows) - 1) :
                        /\ DOMAIN ctnv[cr[1]] /= {}
                        /\ ctnv[cr[1]][cr[2]].float_value /= None
                        /\ i - 1 \in _get_cell_token_indexes(column_ids, row_ids, cr[1], cr[2])}
        IN  IF cells = {} THEN NaN
            ELSE LET cr == CHOOSE x \in cells : TRUE
                 IN  Some(ctnv[cr[1]][cr[2]].float_value[1])]

_add_numeric_values_scale(tab, column_ids, row_ids, model_max_length) ==
    [i \in 1..model_max_length |->
        LET cells == {cr \in (0..Len(tab.columns) - 1) \X (0..Len(tab.rows) - 1) :
                        i - 1 \in _get_cell_token_indexes(column_ids, row_ids, cr[1], cr[2])}
            num_indices(cr) ==
                Cardinality(_get_cell_token_indexes(column_ids, row_ids, cr[1], cr[2]))
        IN  IF cells = {} THEN 1
            ELSE LET cr == CHOOSE x \in cells : TRUE
                 IN  IF num_indices(cr) > 1 THEN num_indices(cr) ELSE 1]

\* faulty variant of _pad_to_seq_length: the padding loop runs once too often
\* (while len(inputs) <= model_max_length)
_pad_to_seq_length_one_more(inputs, model_max_length) ==
    [i \in 1..model_max_length + 1 |-> IF i <= Len(inputs) THEN inputs[i] ELSE 0]

\* _pad_to_seq_length
_pad_to_seq_length(inputs, model_max_length) ==
    [i \in 1..model_max_length |-> IF i <= Len(inputs) THEN inputs[i] ELSE 0]

(***************************************************************************)
(* Answer alignment, coordinate mode.                                      *)
(***************************************************************************)
\* faulty variant of _to_coordinates: the pairs are passed on as (row, column)
_to_coordinates_not_swapped(answer_coordinates_question) ==
    [i \in 1..Len(answer_coordinates_question) |->
        <<answer_coordinates_question[i][1], answer_coordinates_question[i][2]>>]

\* _to_coordinates of _get_all_answer_ids: (row, column) swapped to (column, row)
_to_coordinates(answer_coordinates_question) ==
    [i \in 1..Len(answer_coordinates_question) |->
        <<answer_coordinates_question[i][2], answer_coordinates_question[i][1]>>]

\* [answer_ids, missing_count]
_get_all_answer_ids_from_coordinates(column_ids, row_ids, answers_list) ==
    LET all_answers == {answers_list[i] : i \in 1..Len(answers_list)}
        found_answers ==
            {a \in all_answers : _get_cell_token_indexes(column_ids, row_ids, a[1], a[2]) /= {}}
    IN  [answer_ids |-> [i \in 1..Len(column_ids) |->
                            IF \E a \in all_answers :
                                 i - 1 \in _get_cell_token_indexes(column_ids, row_ids, a[1], a[2])
                            THEN 1 ELSE 0],
         missing_count |-> Cardinality(all_answers) - Cardinality(found_answers)]

\* faulty variant of _get_all_answer_ids: the answer ids of the query before are
\* carried over into those of the query
_get_all_answer_ids_carried_over(column_ids, row_ids, answer_coordinates_question) ==
    LET own == _get_all_answer_ids_from_coordinates(
                   column_ids, row_ids, _to_coordinates(answer_coordinates_question))
    IN  [answer_ids |-> [i \in 1..Len(column_ids) |->
                            IF position >= 1 /\ position_to_label_ids[position][i] = 1
                            THEN 1 ELSE own.answer_ids[i]],
         missing_count |-> own.missing_count]

_get_all_answer_ids(column_ids, row_ids, answer_coordinates_question) ==
    _get_all_answer_ids_from_coordinates(column_ids, row_ids,
                                         _to_coordinates(answer_coordinates_question))

(***************************************************************************)
(* Answer alignment, text-match mode.                                      *)
(***************************************************************************)
\* _find_tokens: [raises, index]. The tokens are plain strings, so the first
\* comparison that is executed, text[index + seg_index].piece, raises
\* AttributeError; an empty segment runs no comparison and the for-else returns
\* the first start index; an empty range of start indexes returns None
_find_tokens(text, segment) ==
    IF 1 + Len(text) - Len(segment) <= 0 THEN [raises |-> FALSE, index |-> None]
    ELSE IF Len(segment) = 0 THEN [raises |-> FALSE, index |-> Some(0)]
    ELSE [raises |-> TRUE, index |-> None]

\* the cells _find_answer_coordinates_from_answer_text visits, in its order:
\* (row_index, col_index) of the rows after the header
DataCells(tt) ==
    Concat([r \in 1..Len(tt.rows) - 1 |->
               [c \in 1..Len(tt.rows[r + 1]) |-> <<r, c - 1>>]])

\* the inner loop of _find_answer_ids_from_answer_texts for one answer text, from
\* the k-th visited cell on: [raises, answer_ids]
RECURSIVE FindAnswerText(_, _, _, _, _, _)
FindAnswerText(column_ids, row_ids, tt, answer_text, k, answer_ids) ==
    IF k > Len(DataCells(tt)) THEN [raises |-> FALSE, answer_ids |-> answer_ids]
    ELSE LET row_index == DataCells(tt)[k][1]
             col_index == DataCells(tt)[k][2]
             found == _find_tokens(tt.rows[row_index + 1][col_index + 1], answer_text)
             indexes == _get_cell_token_indexes(column_ids, row_ids, col_index,
                                                row_index - 1)
             begin_index ==
                 found.index[1] + (CHOOSE m \in indexes : \A n \in indexes : m <= n)
             end_index == begin_index + Len(answer_text)
             coordinate_answer_ids ==
                 IF indexes = {} THEN {}
                 ELSE {index \in indexes : index >= begin_index /\ index < end_index}
         IN  IF found.raises THEN [raises |-> TRUE, answer_ids |-> answer_ids]
             ELSE IF found.index = None
             THEN FindAnswerText(column_ids, row_ids, tt, answer_text, k + 1, answer_ids)
             ELSE IF Cardinality(coordinate_answer_ids) = Len(answer_text)
             THEN [raises |-> FALSE,
                   answer_ids |-> [i \in 1..Len(answer_ids) |->
                                      IF i - 1 \in coordinate_answer_ids THEN 1
                                      ELSE answer_ids[i]]]
             ELSE FindAnswerText(column_ids, row_ids, tt, answer_text, k + 1, answer_ids)

\* the outer loop of _find_answer_ids_from_answer_texts, from the a-th answer text on
RECURSIVE FindAnswerTexts(_, _, _, _, _, _)
FindAnswerTexts(column_ids, row_ids, tt, answer_texts, a, answer_ids) ==
    IF a > Len(answer_texts) THEN [raises |-> FALSE, answer_ids |-> answer_ids]
    ELSE LET one == FindAnswerText(column_ids, row_ids, tt, answer_texts[a], 1,
                                   answer_ids)
         IN  IF one.raises THEN one
             ELSE FindAnswerTexts(column_ids, row_ids, tt, answer_texts, a + 1,
                                  one.answer_ids)

_find_answer_ids_from_answer_texts(column_ids, row_ids, tt, answer_texts) ==
    FindAnswerTexts(column_ids, row_ids, tt, answer_texts, 1,
                    [i \in 1..Len(column_ids) |-> 0])

(***************************************************************************)
(* The tokenizer object and the batch call.                                *)
(***************************************************************************)
\* TapasTokenizer.__init__: max_column_id and max_row_id default to model_max_length
TapasTokenizer(model_max_length, cell_trim_length, max_column_id, max_row_id, strip_column_names, update_answer_coordinates, drop_rows_to_fit) ==
    [model_max_length |-> model_max_length,
     cell_trim_length |-> cell_trim_length,
     max_column_id |-> IF max_column_id /= None THEN max_column_id[1] ELSE model_max_length,
     max_row_id |-> IF max_row_id /= None THEN max_row_id[1] ELSE model_max_length,
     strip_column_names |-> strip_column_names,
     update_answer_coordinates |-> update_answer_coordinates,
     drop_rows_to_fit |-> drop_rows_to_fit]

NoFeatures ==
    [input_ids |-> <<>>, attention_mask |-> <<>>, segment_ids |-> <<>>,
     column_ids |-> <<>>, row_ids |-> <<>>, column_ranks |-> <<>>,
     inv_column_ranks |-> <<>>, numeric_relations |-> <<>>, numeric_values |-> <<>>,
     numeric_values_scale |-> <<>>, label_ids |-> <<>>, prev_label_ids |-> <<>>]

NoExample == [tokens |-> <<>>, segment_ids |-> <<>>, column_ids |-> <<>>, row_ids |-> <<>>]

\* the state after construction, with the arguments of the call to come
InitWith(configs, calls) ==
    /\ config \in configs
    /\ call \in calls
    /\ tokenized_table = [rows |-> <<>>, selected_tokens |-> <<>>]
    /\ num_rows = 0
    /\ num_columns = 0
    /\ position = 0
    /\ fit = None
    /\ serialized_example = NoExample
    /\ features = NoFeatures
    /\ columns_to_numeric_values = <<>>
    /\ cell_indices_to_relations = <<>>
    /\ features_examples = <<>>
    /\ position_to_label_ids = <<>>
    /\ encoded_inputs = None
    /\ pc = "start"
    /\ raised = ""
    /\ cell_classification_threshold = None
    /\ logits = <<>>
    /\ num_decoded = 0
    /\ answer_coordinates_batch = <<>>
    /\ trim_rows = 0

\* faulty variant of Raise: the exception is noted and the loop goes on with the
\* next query
Raise_and_go_on(exception) ==
    /\ pc' = "query"
    /\ raised' = exception

\* an exception leaves the call: nothing is returned
Raise(exception) ==
    /\ pc' = "raised"
    /\ raised' = exception

\* _batch_prepare_for_model up to the loop over the queries:
\* _tokenize_table, _get_num_rows, _get_num_columns
BatchPrepare ==
    /\ pc = "start"
    /\ tokenized_table' = _tokenize_table(call.table, config.strip_column_names)
    /\ LET rows == Len(call.table.rows)
           columns == Len(call.table.columns)
       IN  IF rows >= config.max_row_id /\ ~config.drop_rows_to_fit
           THEN Raise("Too many rows") /\ UNCHANGED <<num_rows, num_columns>>
           ELSE IF columns >= config.max_column_id
           THEN Raise("Too many columns") /\ UNCHANGED <<num_rows, num_columns>>
           ELSE /\ num_rows' = IF rows >= config.max_row_id
                               THEN config.max_row_id - 1 ELSE rows
                /\ num_columns' = columns
                /\ pc' = "query"
                /\ UNCHANGED raised
    /\ UNCHANGED <<decoder_vars, trim_rows>>
    /\ UNCHANGED <<config, call, position, fit, serialized_example, features,
                   columns_to_numeric_values, cell_indices_to_relations,
                   features_examples, position_to_label_ids, encoded_inputs>>

\* _to_trimmed_features up to the call of _to_features: the fitting loop,
\* _serialize and the assertion on the serialized length
ToTrimmedFeatures ==
    /\ pc = "query"
    /\ position < Len(call.queries)
    /\ LET question_tokens == tokenize(call.queries[position + 1])
           found == TrimLoop(config, question_tokens, tokenized_table, num_columns, num_rows)
           example == _serialize(question_tokens, tokenized_table, num_columns,
                                 found[1].num_rows, found[1].num_tokens)
       IN  IF found = None
           THEN Raise("Sequence too long") /\ UNCHANGED <<fit, serialized_example>>
           ELSE /\ fit' = found
                /\ serialized_example' = example
                /\ IF Len(example.tokens) <= config.model_max_length
                   THEN pc' = "serialized" /\ UNCHANGED raised
                   ELSE Raise("AssertionError")
    /\ features' = NoFeatures
    /\ columns_to_numeric_values' = <<>>
    /\ cell_indices_to_relations' = <<>>
    /\ UNCHANGED <<decoder_vars, trim_rows>>
    /\ UNCHANGED <<config, call, tokenized_table, num_rows, num_columns, position,
                   features_examples, position_to_label_ids, encoded_inputs>>

\* _to_trimmed_features enters its loop: num_rows starts at init_num_rows
BeginTrim ==
    /\ pc = "query"
    /\ position < Len(call.queries)
    /\ trim_rows' = num_rows
    /\ pc' = "trimming"
    /\ UNCHANGED decoder_vars
    /\ UNCHANGED <<config, call, tokenized_table, num_rows, num_columns, position, fit,
                   serialized_example, features, columns_to_numeric_values,
                   cell_indices_to_relations, features_examples, position_to_label_ids,
                   encoded_inputs, raised>>

\* faulty variant of NextTrimRows: two rows are dropped at a time
NextTrimRows_two(n) == n - 2

\* num_rows -= 1
NextTrimRows(n) == n - 1

\* one round of the loop of _to_trimmed_features: the cap search for the current
\* number of rows, then leave with the cap (and serialize), raise, or drop a row
TryRows ==
    /\ pc = "trimming"
    /\ LET question_tokens == tokenize(call.queries[position + 1])
           num_tokens == _get_max_num_tokens(config, question_tokens, tokenized_table,
                                             num_columns, trim_rows)
           example == _serialize(question_tokens, tokenized_table, num_columns,
                                 trim_rows, num_tokens[1])
       IN  IF num_tokens /= None
           THEN /\ fit' = Some([num_rows |-> trim_rows, num_tokens |-> num_tokens[1]])
                /\ serialized_example' = example
                /\ IF Len(example.tokens) <= config.model_max_length
                   THEN pc' = "serialized" /\ UNCHANGED raised
                   ELSE Raise("AssertionError")
                /\ UNCHANGED trim_rows
           ELSE IF ~config.drop_rows_to_fit \/ trim_rows = 0
           THEN /\ Raise("Sequence too long")
                /\ UNCHANGED <<fit, serialized_example, trim_rows>>
           ELSE /\ trim_rows' = NextTrimRows(trim_rows)
                /\ UNCHANGED <<fit, serialized_example, pc, raised>>
    /\ UNCHANGED decoder_vars
    /\ UNCHANGED <<config, call, tokenized_table, num_rows, num_columns, position,
                   features, columns_to_numeric_values, cell_indices_to_relations,
                   features_examples, position_to_label_ids, encoded_inputs>>

\* the fitting of one query, one round of the loop at a time
NextTrim ==
    \/ BatchPrepare
    \/ BeginTrim
    \/ TryRows

\* _to_features up to the numeric features: ids, mask and padding
ToFeatures ==
    /\ pc = "serialized"
    /\ features' = [features EXCEPT
          !.input_ids = _pad_to_seq_length(convert_tokens_to_ids(serialized_example.tokens),
                                           config.model_max_length),
          !.attention_mask = _pad_to_seq_length(
                                [i \in 1..Len(serialized_example.tokens) |-> 1],
                                config.model_max_length),
          !.segment_ids = _pad_to_seq_length(serialized_example.segment_ids,
                                             config.model_max_length),
          !.column_ids = _pad_to_seq_length(serialized_example.column_ids,
                                            config.model_max_length),
          !.row_ids = _pad_to_seq_length(serialized_example.row_ids,
                                         config.model_max_length)]
    /\ pc' = "padded"
    /\ UNCHANGED <<decoder_vars, trim_rows>>
    /\ UNCHANGED <<config, call, tokenized_table, num_rows, num_columns, position, fit,
                   serialized_example, columns_to_numeric_values,
                   cell_indices_to_relations, features_examples, position_to_label_ids,
                   encoded_inputs, raised>>

AddNumericColumnRanks ==
    /\ pc = "padded"
    /\ columns_to_numeric_values' = ColumnsToNumericValues(call.table)
    /\ LET result == _add_numeric_column_ranks(features.column_ids, features.row_ids,
                                               call.table, columns_to_numeric_values')
       IN  features' = [features EXCEPT !.column_ranks = result.ranks,
                                        !.inv_column_ranks = result.inv_ranks]
    /\ pc' = "ranks"
    /\ UNCHANGED <<decoder_vars, trim_rows>>
    /\ UNCHANGED <<config, call, tokenized_table, num_rows, num_columns, position, fit,
                   serialized_example, cell_indices_to_relations, features_examples,
                   position_to_label_ids, encoded_inputs, raised>>

AddNumericRelations ==
    /\ pc = "ranks"
    /\ LET citr == CellIndicesToRelations(call.queries[position + 1], call.table,
                                          columns_to_numeric_values)
       IN  /\ cell_indices_to_relations' = citr
           /\ features' = [features EXCEPT !.numeric_relations =
                  _add_numeric_relations(features.column_ids, features.row_ids, citr)]
    /\ pc' = "relations"
    /\ UNCHANGED <<decoder_vars, trim_rows>>
    /\ UNCHANGED <<config, call, tokenized_table, num_rows, num_columns, position, fit,
                   serialized_example, columns_to_numeric_values, features_examples,
                   position_to_label_ids, encoded_inputs, raised>>

AddNumericValues ==
    /\ pc = "relations"
    /\ IF NumericValuesKeyError(call.table, columns_to_numeric_values)
       THEN Raise("KeyError") /\ UNCHANGED features
       ELSE /\ features' = [features EXCEPT !.numeric_values =
                   _add_numeric_values(call.table, features.column_ids, features.row_ids,
                                       columns_to_numeric_values, config.model_max_length)]
            /\ pc' = "values"
            /\ UNCHANGED raised
    /\ UNCHANGED <<decoder_vars, trim_rows>>
    /\ UNCHANGED <<config, call, tokenized_table, num_rows, num_columns, position, fit,
                   serialized_example, columns_to_numeric_values,
                   cell_indices_to_relations, features_examples, position_to_label_ids,
                   encoded_inputs>>

AddNumericValuesScale ==
    /\ pc = "values"
    /\ features' = [features EXCEPT !.numeric_values_scale =
            _add_numeric_values_scale(call.table, features.column_ids, features.row_ids,
                                      config.model_max_length)]
    /\ pc' = "features"
    /\ UNCHANGED <<decoder_vars, trim_rows>>
    /\ UNCHANGED <<config, call, tokenized_table, num_rows, num_columns, position, fit,
                   serialized_example, columns_to_numeric_values,
                   cell_indices_to_relations, features_examples, position_to_label_ids,
                   encoded_inputs, raised>>

\* faulty variant of PrevLabelIds: zeros at every position
PrevLabelIds_all_zeros(pos, labels, input_ids) == [i \in 1..Len(input_ids) |-> 0]

\* prev_label_ids of the query at pos when answers are supplied: zeros at
\* position 0, else position_to_label_ids[position - 1]
PrevLabelIds(pos, labels, input_ids) ==
    IF pos = 0 THEN [i \in 1..Len(input_ids) |-> 0] ELSE labels[pos]

\* the rest of the loop body of _batch_prepare_for_model: label ids (get_answer_ids,
\* by text match with update_answer_coordinates on, by coordinates otherwise) and
\* prev_label_ids of the query, then on to the next position
AddLabels ==
    /\ pc = "features"
    /\ IF call.add_loss_variables
       THEN LET text_mode == config.update_answer_coordinates
                answer_texts_question == call.answer_texts[position + 1]
                matched == _find_answer_ids_from_answer_texts(
                               serialized_example.column_ids, serialized_example.row_ids,
                               tokenized_table,
                               [a \in 1..Len(answer_texts_question) |->
                                   tokenize(answer_texts_question[a])])
                found == _get_all_answer_ids(serialized_example.column_ids,
                                             serialized_example.row_ids,
                                             call.answer_coordinates[position + 1])
                label_ids == _pad_to_seq_length(
                                 IF text_mode THEN matched.answer_ids ELSE found.answer_ids,
                                 config.model_max_length)
                prev_label_ids ==
                    PrevLabelIds(position, position_to_label_ids, features.input_ids)
            IN  IF text_mode /\ matched.raises
                THEN /\ Raise("AttributeError")
                     /\ UNCHANGED <<features, features_examples, position_to_label_ids,
                                    position>>
                ELSE IF ~text_mode /\ found.missing_count /= 0
                THEN /\ Raise("Couldn't find all answers")
                     /\ UNCHANGED <<features, features_examples, position_to_label_ids,
                                    position>>
                ELSE /\ position_to_label_ids' = Append(position_to_label_ids, label_ids)
                     /\ features' = [features EXCEPT
                            !.label_ids = label_ids,
                            !.prev_label_ids =
                                _pad_to_seq_length(prev_label_ids, config.model_max_length)]
                     /\ features_examples' = Append(features_examples, features')
                     /\ position' = position + 1
                     /\ pc' = "query"
                     /\ UNCHANGED raised
       ELSE /\ features' = [features EXCEPT !.prev_label_ids =
                   _pad_to_seq_length([i \in 1..Len(features.input_ids) |-> 0],
                                      config.model_max_length)]
            /\ features_examples' = Append(features_examples, features')
            /\ position' = position + 1
            /\ pc' = "query"
            /\ UNCHANGED <<position_to_label_ids, raised>>
    /\ UNCHANGED <<decoder_vars, trim_rows>>
    /\ UNCHANGED <<config, call, tokenized_table, num_rows, num_columns, fit,
                   serialized_example, columns_to_numeric_values,
                   cell_indices_to_relations, encoded_inputs>>

token_types == <<"segment_ids", "column_ids", "row_ids", "prev_label_ids",
                 "column_ranks", "inv_column_ranks", "numeric_relations">>

\* the output dictionary of _batch_prepare_for_model
BuildOutput ==
    /\ pc = "query"
    /\ position = Len(call.queries)
    /\ encoded_inputs' = Some(
          [input_ids |-> [p \in 1..Len(call.queries) |-> features_examples[p].input_ids],
           attention_mask |->
               [p \in 1..Len(call.queries) |-> features_examples[p].attention_mask],
           token_type_ids |->
               [p \in 1..Len(call.queries) |->
                   [token_idx \in 1..config.model_max_length |->
                       [t \in 1..Len(token_types) |->
                           features_examples[p][token_types[t]][token_idx]]]],
           label_ids |-> IF call.add_loss_variables
                         THEN [p \in 1..Len(call.queries) |-> features_examples[p].label_ids]
                         ELSE <<>>,
           numeric_values |->
               IF call.add_loss_variables
               THEN [p \in 1..Len(call.queries) |-> features_examples[p].numeric_values]
               ELSE <<>>,
           numeric_values_scale |->
               IF call.add_loss_variables
               THEN [p \in 1..Len(call.queries) |->
                        features_examples[p].numeric_values_scale]
               ELSE <<>>])
    /\ pc' = "returned"
    /\ UNCHANGED <<decoder_vars, trim_rows>>
    /\ UNCHANGED <<config, call, tokenized_table, num_rows, num_columns, position, fit,
                   serialized_example, features, columns_to_numeric_values,
                   cell_indices_to_relations, features_examples, position_to_label_ids,
                   raised>>

Next ==
    \/ BatchPrepare
    \/ ToTrimmedFeatures
    \/ ToFeatures
    \/ AddNumericColumnRanks
    \/ AddNumericRelations
    \/ AddNumericValues
    \/ AddNumericValuesScale
    \/ AddLabels
    \/ BuildOutput

(***************************************************************************)
(* Prediction decoding.                                                    *)
(***************************************************************************)
\* probabilities and thresholds are counted in halves: 0, 1/2, 1

\* logits whose sigmoid is 0, 1/2 and 1
Logits == {"-inf", "0", "+inf"}

\* cell_classification_threshold: 0 and the default 1/2, in halves
Thresholds == {0, 1}

\* token_types.index(type), from 1
TokenTypeIndex(type) == CHOOSE t \in 1..Len(token_types) : token_types[t] = type

\* data["token_type_ids"][i, :, token_types.index(type)]
TokenTypeColumn(data, i, type) ==
    [token_idx \in 1..Len(data.token_type_ids[i]) |->
        data.token_type_ids[i][token_idx][TokenTypeIndex(type)]]

\* torch.distributions.Bernoulli(logits=logits).probs: the sigmoid of the logit
BernoulliProbs(logit) ==
    CASE logit = "-inf" -> 0
      [] logit = "0" -> 1
      [] logit = "+inf" -> 2

\* dist_per_token.probs * data["attention_mask"], for example i
MaskedProbabilities(example_logits, attention_mask) ==
    [t \in 1..Len(example_logits) |-> BernoulliProbs(example_logits[t]) * attention_mask[t]]

\* _get_cell_token_probs: the indexes (from 0) it yields
_get_cell_token_probs(probabilities, segment_ids, row_ids, column_ids) ==
    {i \in 0..Len(probabilities) - 1 :
        column_ids[i + 1] - 1 >= 0 /\ row_ids[i + 1] - 1 >= 0 /\ segment_ids[i + 1] = 1}

RECURSIVE SumOver(_, _)
SumOver(probabilities, indexes) ==
    IF indexes = {} THEN 0
    ELSE LET i == CHOOSE x \in indexes : TRUE
         IN  probabilities[i + 1] + SumOver(probabilities, indexes \ {i})

\* faulty variant of _get_mean_cell_probs: the largest token probability of the
\* cell stands for the mean
_get_mean_cell_probs_max(probabilities, segment_ids, row_ids, column_ids) ==
    LET kept == _get_cell_token_probs(probabilities, segment_ids, row_ids, column_ids)
        coords == {<<column_ids[i + 1] - 1, row_ids[i + 1] - 1>> : i \in kept}
    IN  [cr \in coords |->
            LET of_cell == {i \in kept : <<column_ids[i + 1] - 1, row_ids[i + 1] - 1>> = cr}
            IN  [sum |-> CHOOSE m \in {probabilities[i + 1] : i \in of_cell} :
                            \A i \in of_cell : probabilities[i + 1] <= m,
                 count |-> 1]]

\* _get_mean_cell_probs: (col, row) -> mean of the kept token probabilities of
\* the cell, as the fraction sum / count
_get_mean_cell_probs(probabilities, segment_ids, row_ids, column_ids) ==
    LET kept == _get_cell_token_probs(probabilities, segment_ids, row_ids, column_ids)
        coords == {<<column_ids[i + 1] - 1, row_ids[i + 1] - 1>> : i \in kept}
    IN  [cr \in coords |->
            LET of_cell == {i \in kept : <<column_ids[i + 1] - 1, row_ids[i + 1] - 1>> = cr}
            IN  [sum |-> SumOver(probabilities, of_cell), count |-> Cardinality(of_cell)]]

\* cell_prob > cell_classification_threshold
ProbGreater(cell_prob, threshold) == cell_prob.sum > threshold * cell_prob.count

\* faulty variant: the cells are collected as (col, row)
RECURSIVE SelectAnswers_col_row(_, _, _, _, _, _)
SelectAnswers_col_row(cell_coords_to_prob, threshold, max_width, max_height, col, row) ==
    IF col >= max_width THEN <<>>
    ELSE IF row >= max_height
    THEN SelectAnswers_col_row(cell_coords_to_prob, threshold, max_width, max_height,
                               col + 1, 0)
    ELSE (IF <<col, row>> \in DOMAIN cell_coords_to_prob
             /\ ProbGreater(cell_coords_to_prob[<<col, row>>], threshold)
          THEN <<<<col, row>>>> ELSE <<>>)
         \o SelectAnswers_col_row(cell_coords_to_prob, threshold, max_width, max_height,
                                  col, row + 1)

\* the loops over range(max_width) and range(max_height): the cells above the
\* threshold as (row, col), column by column
RECURSIVE SelectAnswers(_, _, _, _, _, _)
SelectAnswers(cell_coords_to_prob, threshold, max_width, max_height, col, row) ==
    IF col >= max_width THEN <<>>
    ELSE IF row >= max_height
    THEN SelectAnswers(cell_coords_to_prob, threshold, max_width, max_height, col + 1, 0)
    ELSE (IF <<col, row>> \in DOMAIN cell_coords_to_prob
             /\ ProbGreater(cell_coords_to_prob[<<col, row>>], threshold)
          THEN <<<<row, col>>>> ELSE <<>>)
         \o SelectAnswers(cell_coords_to_prob, threshold, max_width, max_height, col,
                          row + 1)

\* the order of tuples of two integers
TupleBefore(a, b) == a[1] < b[1] \/ (a[1] = b[1] /\ a[2] < b[2])

\* faulty variant of sorted: the list is left in the order it was collected
sorted_as_collected(coordinates) == coordinates

\* sorted(...) of a list of tuples
RECURSIVE sorted(_)
sorted(coordinates) ==
    IF coordinates = <<>> THEN <<>>
    ELSE LET m == CHOOSE k \in 1..Len(coordinates) :
                     \A j \in 1..Len(coordinates) :
                        ~TupleBefore(coordinates[j], coordinates[k]) /\
                        (coordinates[j] = coordinates[k] => k <= j)
         IN  <<coordinates[m]>>
             \o sorted([j \in 1..Len(coordinates) - 1 |->
                           IF j < m THEN coordinates[j] ELSE coordinates[j + 1]])

\* tensor.max() of a row of ids
RECURSIVE SeqMax(_)
SeqMax(ids) == IF ids = <<>> THEN 0 ELSE Max(Head(ids), SeqMax(Tail(ids)))

\* the body of the loop of convert_logits_to_predictions for example i (from 1):
\* None when the example is passed over (continue), else Some(answer_coordinates)
DecodeExample(data, example_logits, threshold, i) ==
    LET probabilities_example == MaskedProbabilities(example_logits, data.attention_mask[i])
        segment_ids_example == TokenTypeColumn(data, i, "segment_ids")
        row_ids_example == TokenTypeColumn(data, i, "row_ids")
        column_ids_example == TokenTypeColumn(data, i, "column_ids")
        max_width == SeqMax(column_ids_example)
        max_height == SeqMax(row_ids_example)
    IN  IF max_width = 0 /\ max_height = 0 THEN None
        ELSE Some(sorted(SelectAnswers(
                 _get_mean_cell_probs(probabilities_example, segment_ids_example,
                                      row_ids_example, column_ids_example),
                 threshold, max_width, max_height, 0, 0)))

encoder_vars ==
    <<config, call, tokenized_table, num_rows, num_columns, position, fit,
      serialized_example, features, columns_to_numeric_values,
      cell_indices_to_relations, features_examples, position_to_label_ids,
      encoded_inputs, raised, trim_rows>>

\* convert_logits_to_predictions is called on the returned batch
ConvertLogitsToPredictions ==
    /\ pc = "returned"
    /\ cell_classification_threshold' \in {Some(t) : t \in Thresholds}
    /\ logits' = <<>>
    /\ num_decoded' = 0
    /\ answer_coordinates_batch' = <<>>
    /\ pc' = "decoding"
    /\ UNCHANGED encoder_vars

\* one round of the loop over the examples of the batch
DecodeNextExample ==
    /\ pc = "decoding"
    /\ num_decoded < Len(encoded_inputs[1].input_ids)
    /\ logits' \in [1..config.model_max_length -> Logits]
    /\ LET answer_coordinates == DecodeExample(encoded_inputs[1], logits',
                                               cell_classification_threshold[1],
                                               num_decoded + 1)
       IN  answer_coordinates_batch' =
               IF answer_coordinates = None THEN answer_coordinates_batch
               ELSE Append(answer_coordinates_batch, answer_coordinates[1])
    /\ num_decoded' = num_decoded + 1
    /\ UNCHANGED <<pc, cell_classification_threshold>>
    /\ UNCHANGED encoder_vars

\* output = answer_coordinates_batch is returned (no logits_agg, no logits_cls)
ReturnPredictions ==
    /\ pc = "decoding"
    /\ num_decoded = Len(encoded_inputs[1].input_ids)
    /\ pc' = "predicted"
    /\ UNCHANGED decoder_vars
    /\ UNCHANGED encoder_vars

\* encoding a batch, then decoding the logits of a model for it
NextDecode ==
    \/ Next
    \/ ConvertLogitsToPredictions
    \/ DecodeNextExample
    \/ ReturnPredictions

(***************************************************************************)
(* Explored inputs.                                                        *)
(***************************************************************************)
\* tables of 1..maxcols columns named "x" and 0..maxrows rows of the given cell texts
Tables(texts, maxrows, maxcols) ==
    UNION {UNION {{[columns |-> [c \in 1..ncols |-> <<"x">>], rows |-> rows] :
                      rows \in [1..nrows -> [1..ncols -> texts]]} :
                  nrows \in 0..maxrows} :
           ncols \in 1..maxcols}

\* batches of 1..maxqueries queries without answers
CallsWithoutAnswers(tables, querytexts, maxqueries) ==
    UNION {{[table |-> t, queries |-> q, add_loss_variables |-> FALSE,
             answer_coordinates |-> <<>>, answer_texts |-> <<>>] :
                t \in tables, q \in [1..n -> querytexts]} : n \in 1..maxqueries}

\* batches of 1..maxqueries queries, each with answer coordinates and no answer text
CallsWithAnswers(tables, querytexts, answers, maxqueries) ==
    UNION {{[table |-> t, queries |-> q, add_loss_variables |-> TRUE,
             answer_coordinates |-> a, answer_texts |-> [i \in 1..n |-> <<>>]] :
                t \in tables, q \in [1..n -> querytexts], a \in [1..n -> answers]} :
           n \in 1..maxqueries}

\* batches of 1..maxqueries queries, each with answer texts and no coordinates
CallsWithAnswerTexts(tables, querytexts, answertexts, maxqueries) ==
    UNION {{[table |-> t, queries |-> q, add_loss_variables |-> TRUE,
             answer_coordinates |-> [i \in 1..n |-> <<>>], answer_texts |-> a] :
                t \in tables, q \in [1..n -> querytexts], a \in [1..n -> answertexts]} :
           n \in 1..maxqueries}

\* cells of 0, 1 and 3 tokens; "ab" is one word of two pieces
StructTexts == {<<>>, <<"x">>, <<"7", "ab">>}

\* one-column tables of all the cell texts, wider tables of the non-empty ones
StructTables ==
    Tables(StructTexts, MaxRows, 1) \cup Tables(StructTexts \ {<<>>}, MaxRows, MaxCols)

\* model_max_length from too short for any table to long enough for some whole
\* ones, dynamic and fixed trimming, header kept or stripped, rows dropped or not
StructConfigs ==
    {TapasTokenizer(len, trim, None, None, strip, FALSE, drop) :
        len \in (MaxModelLen - 5)..MaxModelLen, trim \in {-1, 1},
        strip \in BOOLEAN, drop \in BOOLEAN}

\* answer coordinates (row, column) of one query: none, the first cell alone,
\* the first cells of the first two rows, a cell of the second column
StructAnswers == {<<>>, <<<<0, 0>>>>, <<<<1, 0>>, <<0, 0>>>>, <<<<0, 1>>>>}

StructCalls ==
    CallsWithoutAnswers(StructTables, {<<"x">>, <<"3", "ab">>}, 1)
    \cup CallsWithAnswers(StructTables, {<<"x">>}, StructAnswers, MaxQueries)

Init == InitWith(StructConfigs, StructCalls)

Spec == Init /\ [][Next]_vars

\* cells without a value, with a number, with a number and a word, with a number
\* that is a year as well, with dates of different fields
NumTexts ==
    {<<"x">>, <<"3">>, <<"7", "ab">>, <<"2010">>, <<"may", "2010">>, <<"3", "may">>,
     <<"7", "may">>}

\* one column of up to MaxNumRows rows, and wider tables of fewer texts
NumTables ==
    Tables(NumTexts, MaxNumRows, 1)
    \cup Tables({<<"x">>, <<"3">>, <<"2010s">>, <<"may">>}, MaxRows, MaxCols)

\* a model_max_length that holds every table whole, and a short one with rows
\* dropped to fit
NumConfigs ==
    {TapasTokenizer(3 * MaxNumRows + 7, -1, None, None, FALSE, FALSE, FALSE),
     TapasTokenizer(MaxModelLen, -1, None, None, FALSE, FALSE, TRUE)}

\* questions without a value, with a number, with a year, with a date, with two
\* numbers, with two dates that share a word
NumQueries ==
    {<<"x">>, <<"7">>, <<"2010">>, <<"3", "may", "2010">>, <<"3", "7">>,
     <<"may", "3", "may">>}

NumCalls ==
    CallsWithoutAnswers(NumTables, NumQueries, 1)
    \cup CallsWithAnswers(NumTables, {<<"5">>}, {<<>>}, 1)

InitNum == InitWith(NumConfigs, NumCalls)

SpecNum == InitNum /\ [][Next]_vars

\* the answer texts of one query: none, an empty one, a cell's text, part of a
\* cell's text, one longer than every cell, two texts
TextAnswers ==
    {<<>>, <<<<>>>>, <<<<"x">>>>, <<<<"7", "ab">>>>, <<<<"7">>>>,
     <<<<"x", "x", "x", "x">>>>, <<<<>>, <<"ab">>>>}

\* text-match mode, with a model_max_length that holds every table whole and a
\* short one
TextConfigs ==
    {TapasTokenizer(len, -1, None, None, FALSE, TRUE, drop) :
        len \in {MaxModelLen - 4, 3 * MaxRows * MaxCols + 6}, drop \in BOOLEAN}

TextCalls ==
    CallsWithAnswerTexts(Tables(StructTexts, MaxRows, 1), {<<"x">>}, TextAnswers,
                         MaxQueries)
    \cup CallsWithAnswerTexts(Tables(StructTexts \ {<<>>}, 1, MaxCols), {<<"x">>},
                              TextAnswers, 1)

InitText == InitWith(TextConfigs, TextCalls)

SpecText == InitText /\ [][Next]_vars

\* a model_max_length that holds every table whole with the longer query, and
\* shorter ones; dynamic trimming and a fixed cap that ends inside a word of a cell
BatchConfigs ==
    {TapasTokenizer(len, trim, None, None, FALSE, FALSE, drop) :
        len \in {MaxModelLen - 3, MaxModelLen - 1, 3 * MaxRows + 5}, trim \in {-1, 2},
        drop \in BOOLEAN}

\* batches of different queries with different answers on one-column tables
BatchCalls ==
    CallsWithAnswers(Tables({<<"x">>, <<"7", "ab">>}, MaxRows, 1),
                     {<<"x">>, <<"3", "ab">>},
                     {<<>>, <<<<0, 0>>>>, <<<<1, 0>>>>}, MaxQueries)

InitBatch == InitWith(BatchConfigs, BatchCalls)

SpecBatch == InitBatch /\ [][Next]_vars

\* max_column_id and max_row_id below, at and above the sizes of the tables
CapConfigs ==
    {TapasTokenizer(MaxModelLen, -1, Some(max_column_id), Some(max_row_id), FALSE, FALSE,
                    drop) :
        max_column_id \in 1..MaxCols + 1, max_row_id \in 1..MaxRows + 1,
        drop \in BOOLEAN}

CapCalls == CallsWithoutAnswers(Tables({<<"x">>}, MaxRows, MaxCols), {<<"x">>}, 1)

InitCaps == InitWith(CapConfigs, CapCalls)

SpecCaps == InitCaps /\ [][Next]_vars

\* every model_max_length from too short for any table to long enough for the
\* longest, dynamic and fixed trimming, rows dropped or not
TrimConfigs ==
    {TapasTokenizer(len, trim, None, None, strip, FALSE, drop) :
        len \in 2..MaxModelLen, trim \in {-1, 0, 1}, strip \in BOOLEAN, drop \in BOOLEAN}

TrimCalls ==
    CallsWithoutAnswers(Tables(StructTexts, MaxRows, 1), {<<>>, <<"x">>, <<"3", "ab">>}, 1)

InitTrim == InitWith(TrimConfigs, TrimCalls)

\* the loop is sequential code: a round that can run does run
SpecTrim == InitTrim /\ [][NextTrim]_vars /\ WF_vars(NextTrim)

\* cells of 0, 1 and 2 tokens
DecodeTexts == {<<>>, <<"x">>, <<"ab">>}

DecodeConfigs ==
    {TapasTokenizer(len, -1, None, None, strip, FALSE, TRUE) :
        len \in {MaxDecodeLen - 2, MaxDecodeLen}, strip \in BOOLEAN}

\* one query without answers; the widest and longest tables with an empty query
DecodeCalls ==
    CallsWithoutAnswers(Tables(DecodeTexts, MaxRows, 1), {<<"x">>}, 1)
    \cup CallsWithoutAnswers(Tables(DecodeTexts \ {<<>>}, 1, MaxCols), {<<"x">>}, 1)
    \cup CallsWithoutAnswers(Tables({<<"x">>}, MaxRows, MaxCols), {<<>>}, 1)

\* the shortest model_max_length only
DecodeBatchConfigs ==
    {TapasTokenizer(MaxDecodeLen - 2, -1, None, None, strip, FALSE, TRUE) :
        strip \in BOOLEAN}

\* a short query and a long one without answers, on a table of one cell
DecodeBatchCalls ==
    {[table |-> t, queries |-> q, add_loss_variables |-> FALSE,
      answer_coordinates |-> <<>>, answer_texts |-> <<>>] :
        t \in Tables({<<"x">>}, 1, 1),
        q \in {<<<<"x">>, <<"x", "x">>>>, <<<<"x", "x">>, <<"x">>>>}}

InitDecode ==
    \/ InitWith(DecodeConfigs, DecodeCalls)
    \/ InitWith(DecodeBatchConfigs, DecodeBatchCalls)

SpecDecode == InitDecode /\ [][NextDecode]_vars

\* answer coordinates (row, column) of one query: none, one cell, two cells given
\* out of order with one of them twice, a cell of the second column
LabelAnswers ==
    {<<>>, <<<<0, 0>>>>, <<<<1, 0>>, <<0, 0>>, <<1, 0>>>>, <<<<0, 1>>>>}

LabelConfigs ==
    {TapasTokenizer(MaxDecodeLen, -1, None, None, strip, FALSE, TRUE) : strip \in BOOLEAN}

\* one query with answer coordinates on a table of one column, or of one row
LabelCalls ==
    CallsWithAnswers(Tables(DecodeTexts \ {<<>>}, MaxRows, 1) \cup Tables({<<"x">>}, 1, MaxCols),
                     {<<>>, <<"x">>}, LabelAnswers, 1)

InitLabel == InitWith(LabelConfigs, LabelCalls)

\* encoding a query with its answer coordinates, then decoding logits for it
SpecLabel == InitLabel /\ [][NextDecode]_vars

(***************************************************************************)
(* Properties.                                                             *)
(***************************************************************************)
\* the keys of the feature dict of one query that are always present
FeatureKeys ==
    {"input_ids", "attention_mask", "segment_ids", "column_ids", "row_ids",
     "prev_label_ids", "column_ranks", "inv_column_ranks", "numeric_relations",
     "numeric_values", "numeric_values_scale"}

\* C1: every feature sequence of every finished query has length exactly
\* model_max_length (label_ids too when answers are supplied), and so has every
\* per-query sequence of the batch once _batch_prepare_for_model has returned.
C1_FeatureLengths ==
    /\ \A p \in 1..Len(features_examples) :
          /\ \A k \in FeatureKeys :
                Len(features_examples[p][k]) = config.model_max_length
          /\ call.add_loss_variables =>
                Len(features_examples[p].label_ids) = config.model_max_length
    /\ pc = "returned" =>
          /\ Len(features_examples) = Len(call.queries)
          /\ \A p \in 1..Len(call.queries) :
                /\ Len(encoded_inputs[1].input_ids[p]) = config.model_max_length
                /\ Len(encoded_inputs[1].attention_mask[p]) = config.model_max_length
                /\ Len(encoded_inputs[1].token_type_ids[p]) = config.model_max_length
                /\ call.add_loss_variables =>
                      /\ Len(encoded_inputs[1].label_ids[p]) = config.model_max_length
                      /\ Len(encoded_inputs[1].numeric_values[p])
                            = config.model_max_length
                      /\ Len(encoded_inputs[1].numeric_values_scale[p])
                            = config.model_max_length

\* C1 witness: a batch of two queries with answers has returned, its serialized
\* example shorter than model_max_length (padding took place) and a label set.
C1_Witness ==
    /\ pc = "returned"
    /\ call.add_loss_variables
    /\ Len(call.queries) = 2
    /\ Len(serialized_example.tokens) < config.model_max_length
    /\ \E i \in 1..config.model_max_length : encoded_inputs[1].label_ids[2][i] = 1

\* the places of the call where the features of the current query are being built
InFeatures == pc \in {"padded", "ranks", "relations", "values", "features"}

\* the places of the call where serialized_example is the one of the current query
Serialized == pc = "serialized" \/ InFeatures

\* the tokens of the query being processed
QuestionTokens == tokenize(call.queries[position + 1])

\* C2: in the features of a query, segment_ids is 1 exactly at the positions that
\* hold a table token, the ones after [CLS], the question tokens and [SEP] and
\* before the padding, and 0 everywhere else.
C2_SegmentIds ==
    InFeatures =>
        LET q == Len(QuestionTokens)
            n == Len(serialized_example.tokens)
        IN  /\ serialized_example.tokens[1] = cls_token
            /\ SubSeq(serialized_example.tokens, 2, q + 1) = QuestionTokens
            /\ serialized_example.tokens[q + 2] = sep_token
            /\ \A i \in 1..config.model_max_length :
                  /\ features.segment_ids[i] \in {0, 1}
                  /\ features.segment_ids[i] = 1 <=> (q + 2 < i /\ i <= n)
                  /\ i > n => features.input_ids[i] = 0 /\ features.attention_mask[i] = 0

\* C2 witness: features with question tokens, table tokens and padding.
C2_Witness ==
    /\ pc = "padded"
    /\ Len(QuestionTokens) = 3
    /\ Len(serialized_example.tokens) > Len(QuestionTokens) + 3
    /\ Len(serialized_example.tokens) < config.model_max_length
    /\ features.segment_ids[Len(QuestionTokens) + 3] = 1
    /\ features.segment_ids[config.model_max_length] = 0

\* the coordinates <<row_index, column_index, token_index>> of a tokenized table
Coordinates(tt) ==
    UNION {UNION {{<<r, c, t>> : t \in 0..Len(tt.rows[r + 1][c + 1]) - 1} :
                     c \in 0..Len(tt.rows[r + 1]) - 1} :
           r \in 0..Len(tt.rows) - 1}

\* index of the first piece of the word that the piece at token_index belongs to,
\* -1 if every piece up to it is an inner one
FirstPiece(cell, token_index) ==
    IF \E j \in 0..token_index : ~_is_inner_wordpiece(cell[j + 1])
    THEN CHOOSE j \in 0..token_index :
            /\ ~_is_inner_wordpiece(cell[j + 1])
            /\ \A k \in j + 1..token_index : _is_inner_wordpiece(cell[k + 1])
    ELSE -1

\* the coordinates inside the caps: header and the first nrows rows, the first
\* ncols columns, the words that begin before token ntokens
Kept(tt, ncols, nrows, ntokens) ==
    {x \in Coordinates(tt) :
        /\ x[1] <= nrows
        /\ x[2] < ncols
        /\ FirstPiece(tt.rows[x[1] + 1][x[2] + 1], x[3]) < ntokens}

\* rows outer, columns inner, tokens innermost
Precedes(y, x) ==
    \/ y[1] < x[1]
    \/ y[1] = x[1] /\ y[2] < x[2]
    \/ y[1] = x[1] /\ y[2] = x[2] /\ y[3] < x[3]

\* C3: _serialize returns four sequences of one length: [CLS], the question
\* tokens in order and [SEP], each with segment 0, column 0 and row 0, then the
\* table tokens inside the caps in the order rows, columns, tokens, each with
\* segment 1, column id column_index + 1 and row id row_index.
C3_Serialize ==
    Serialized =>
        LET q == Len(QuestionTokens)
            e == serialized_example
            kept == Kept(tokenized_table, num_columns, fit[1].num_rows, fit[1].num_tokens)
        IN  /\ Len(e.tokens) = q + 2 + Cardinality(kept)
            /\ Len(e.segment_ids) = Len(e.tokens)
            /\ Len(e.column_ids) = Len(e.tokens)
            /\ Len(e.row_ids) = Len(e.tokens)
            /\ e.tokens[1] = cls_token
            /\ SubSeq(e.tokens, 2, q + 1) = QuestionTokens
            /\ e.tokens[q + 2] = sep_token
            /\ \A i \in 1..q + 2 :
                  e.segment_ids[i] = 0 /\ e.column_ids[i] = 0 /\ e.row_ids[i] = 0
            /\ \A x \in kept :
                  LET i == q + 3 + Cardinality({y \in kept : Precedes(y, x)})
                  IN  /\ e.tokens[i] = tokenized_table.rows[x[1] + 1][x[2] + 1][x[3] + 1]
                      /\ e.segment_ids[i] = 1
                      /\ e.column_ids[i] = x[2] + 1
                      /\ e.row_ids[i] = x[1]

\* C3 witness: a serialized example with tokens of two data rows and two columns,
\* and a table token left out by the caps.
C3_Witness ==
    /\ pc = "serialized"
    /\ \E i, j \in 1..Len(serialized_example.tokens) :
          /\ serialized_example.row_ids[i] = 1 /\ serialized_example.column_ids[i] = 1
          /\ serialized_example.row_ids[j] = 2 /\ serialized_example.column_ids[j] = 2
    /\ Len(serialized_example.tokens)
          < Len(QuestionTokens) + 2 + Len(tokenized_table.selected_tokens)

FitWith(model_max_length) ==
    TrimLoop([config EXCEPT !.model_max_length = model_max_length], QuestionTokens,
             tokenized_table, num_columns, num_rows)

\* the longer values of model_max_length compared with the configured one
Longer == config.model_max_length + 1..MaxModelLen + 1

\* C5 as stated: whenever the current query was fitted, it is fitted with every
\* longer model_max_length too, and with a num_tokens that is not smaller.
C5_NumTokensMonotone ==
    pc = "serialized" =>
        \A longer \in Longer :
            \A other \in {FitWith(longer)} :
                /\ other /= None
                /\ other[1].num_tokens >= fit[1].num_tokens

\* C5 amended: a longer model_max_length never turns a fitted query into
\* "Sequence too long" and never keeps fewer rows; num_tokens does not decrease
\* as long as the same number of rows is kept, which is always so without
\* drop_rows_to_fit, and it does not decrease either when cell_trim_length is set.
\* With drop_rows_to_fit and dynamic trimming a longer model_max_length may keep
\* more rows with a smaller num_tokens.
C5_FitMonotone ==
    pc = "serialized" =>
        \A longer \in Longer :
            \A other \in {FitWith(longer)} :
                /\ other /= None
                /\ other[1].num_rows >= fit[1].num_rows
                /\ other[1].num_rows = fit[1].num_rows =>
                      other[1].num_tokens >= fit[1].num_tokens
                /\ ~config.drop_rows_to_fit => other[1].num_rows = fit[1].num_rows
                /\ config.cell_trim_length >= 0 =>
                      other[1].num_tokens >= fit[1].num_tokens

\* C5 witness: a query fitted with rows dropped and dynamic trimming, for which a
\* longer model_max_length keeps more rows and a smaller num_tokens.
C5_Witness ==
    /\ pc = "serialized"
    /\ config.drop_rows_to_fit
    /\ config.cell_trim_length < 0
    /\ fit[1].num_rows < num_rows
    /\ \E longer \in Longer :
          \E other \in {FitWith(longer)} :
              /\ other /= None
              /\ other[1].num_rows > fit[1].num_rows
              /\ other[1].num_tokens < fit[1].num_tokens

\* the first parsed values of the cells of a column that have one
ColumnValueSet(c) ==
    {columns_to_numeric_values[c][r] : r \in DOMAIN columns_to_numeric_values[c]}

\* the date fields that every value of a set of dates has
CommonFields(values) ==
    {f \in {"year", "month", "day"} : \A v \in values : v.date[1][f] /= None}

\* a non-empty set of values is comparable if all are numbers, or all are dates
\* with a date field in common
Comparable(values) ==
    /\ values /= {}
    /\ \/ \A v \in values : v.float_value /= None
       \/ /\ \A v \in values : v.float_value = None
          /\ CommonFields(values) /= {}

\* the sort key of a value within a comparable set: the number, or the common
\* date fields in the order year, month, day
SortKey(values, v) ==
    IF v.float_value /= None THEN <<v.float_value[1]>>
    ELSE LET fields == SelectSeq(<<"year", "month", "day">>,
                                 LAMBDA f : f \in CommonFields(values))
         IN  [i \in 1..Len(fields) |-> v.date[1][fields[i]][1]]

\* a < b for two sort keys of one set
Smaller(a, b) ==
    \E i \in 1..Len(a) : a[i] < b[i] /\ \A j \in 1..i - 1 : a[j] = b[j]

\* the distinct sort keys of a comparable set that are smaller than the key of v
SmallerKeys(values, v) ==
    {k \in {SortKey(values, w) : w \in values} : Smaller(k, SortKey(values, v))}

\* C6: in a column of mutually comparable values every serialized token of a cell
\* with a value has column rank 1 + the number of distinct smaller sort keys of the
\* column and inverse rank (number of distinct keys) - rank + 1, so cells with
\* equal keys share their ranks; every other position (question, special tokens,
\* header, padding, cells without a value, columns that are not comparable) has
\* rank 0 and inverse rank 0.
C6_ColumnRanks ==
    pc \in {"ranks", "relations", "values", "features"} =>
        \A i \in 1..config.model_max_length :
            LET c == features.column_ids[i] - 1
                r == features.row_ids[i] - 1
            IN  IF /\ c \in DOMAIN columns_to_numeric_values
                   /\ r \in DOMAIN columns_to_numeric_values[c]
                   /\ Comparable(ColumnValueSet(c))
                THEN LET values == ColumnValueSet(c)
                         rank == 1 + Cardinality(
                                        SmallerKeys(values, columns_to_numeric_values[c][r]))
                     IN  /\ features.column_ranks[i] = rank
                         /\ features.inv_column_ranks[i]
                               = Cardinality({SortKey(values, w) : w \in values}) - rank + 1
                ELSE features.column_ranks[i] = 0 /\ features.inv_column_ranks[i] = 0

\* C6 witness: a column with the values 3 < 7 < 2010 whose tokens have the ranks
\* 1, 2, 3 and the inverse ranks 3, 2, 1, next to a header token with rank 0.
C6_Witness ==
    /\ pc = "ranks"
    /\ call.table.rows = <<<<<<"7", "ab">>>>, <<<<"2010">>>>, <<<<"3">>>>>>
    /\ \E h, i, j, k \in 1..config.model_max_length :
          /\ features.row_ids[h] = 0 /\ features.segment_ids[h] = 1
          /\ features.column_ranks[h] = 0
          /\ features.row_ids[i] = 3
          /\ features.column_ranks[i] = 1 /\ features.inv_column_ranks[i] = 3
          /\ features.row_ids[j] = 1
          /\ features.column_ranks[j] = 2 /\ features.inv_column_ranks[j] = 2
          /\ features.row_ids[k] = 2
          /\ features.column_ranks[k] = 3 /\ features.inv_column_ranks[k] = 1

\* the numeric values of the question of the current query
QuestionValues == Range(add_numeric_values_to_question(call.queries[position + 1]))

\* the relation of a question value to a cell value, both in a comparable set
RelationOf(values, value, cell_value) ==
    IF SortKey(values, value) = SortKey(values, cell_value) THEN EQ
    ELSE IF Smaller(SortKey(values, value), SortKey(values, cell_value)) THEN LT
    ELSE GT

\* the relations a cell value of column c has with the question values that are
\* comparable with the column
RelationsOfCell(c, cell_value) ==
    {RelationOf(ColumnValueSet(c) \cup {value}, value, cell_value) :
        value \in {v \in QuestionValues : Comparable(ColumnValueSet(c) \cup {v})}}

\* C7: for a question value and a cell value with a common sort key,
\* get_numeric_relation reports exactly one relation: EQ iff the key of the question
\* value equals the key of the cell value, LT iff it is smaller, GT iff it is
\* greater; the relations recorded for a cell are those of the question values
\* comparable with its column, and a cell without such a value has no entry.
C7_NumericRelation ==
    pc \in {"relations", "values", "features"} =>
        /\ \A cr \in DOMAIN cell_indices_to_relations :
              /\ cr[1] \in DOMAIN columns_to_numeric_values
              /\ cr[2] \in DOMAIN columns_to_numeric_values[cr[1]]
        /\ \A c \in DOMAIN columns_to_numeric_values :
              \A r \in DOMAIN columns_to_numeric_values[c] :
                 /\ \A expected \in {RelationsOfCell(c, columns_to_numeric_values[c][r])} :
                       IF expected = {}
                       THEN <<c, r>> \notin DOMAIN cell_indices_to_relations
                       ELSE /\ <<c, r>> \in DOMAIN cell_indices_to_relations
                            /\ cell_indices_to_relations[<<c, r>>] = expected
                 /\ \A value \in QuestionValues :
                       Comparable(ColumnValueSet(c) \cup {value}) =>
                          \E relation \in {EQ, LT, GT} :
                             /\ get_numeric_relation(
                                    value, columns_to_numeric_values[c][r],
                                    _get_numeric_sort_key_fn(
                                        columns_to_numeric_values[c], value)[1])
                                  = Some(relation)
                             /\ relation = RelationOf(ColumnValueSet(c) \cup {value}, value,
                                                      columns_to_numeric_values[c][r])

\* C7 witness: the question value 7 against a column with the values 7, 2010 and
\* 3: the cells have the relations EQ, LT and GT.
C7_Witness ==
    /\ pc = "relations"
    /\ call.queries[position + 1] = <<"7">>
    /\ call.table.rows = <<<<<<"7", "ab">>>>, <<<<"2010">>>>, <<<<"3">>>>>>
    /\ cell_indices_to_relations[<<0, 0>>] = {EQ}
    /\ cell_indices_to_relations[<<0, 1>>] = {LT}
    /\ cell_indices_to_relations[<<0, 2>>] = {GT}
    /\ \E i \in 1..config.model_max_length :
          features.row_ids[i] = 3 /\ features.numeric_relations[i] = 4

\* C8: once _add_numeric_values has been called for a query, numeric_values holds
\* the float of a cell whose first parsed value is a float at every serialized
\* token of that cell, and NaN at every other position (question, special tokens,
\* header, padding, cells with a date and cells without a value).
C8_NumericValues ==
    (pc \in {"values", "features"} \/ (pc = "raised" /\ raised = "KeyError")) =>
        /\ Len(features.numeric_values) = config.model_max_length
        /\ \A i \in 1..config.model_max_length :
              LET c == features.column_ids[i] - 1
                  r == features.row_ids[i] - 1
              IN  IF /\ c \in DOMAIN columns_to_numeric_values
                     /\ r \in DOMAIN columns_to_numeric_values[c]
                     /\ columns_to_numeric_values[c][r].float_value /= None
                  THEN features.numeric_values[i]
                          = Some(columns_to_numeric_values[c][r].float_value[1])
                  ELSE features.numeric_values[i] = NaN

\* C9: cell text without a numeric value never makes feature building raise: a
\* call that ends with an exception ends with one of the budget fitter, of the
\* row and column limits or of the answer alignment, never with one of
\* _to_features.
C9_FeaturesReturn ==
    pc = "raised" =>
        raised \in {"Too many rows", "Too many columns", "Sequence too long",
                    "AssertionError", "Couldn't find all answers"}

\* the positions of the serialized example that hold a token of the cell named by
\* the answer coordinate (row, column)
NamedTokens(coordinate) ==
    {i \in 1..Len(serialized_example.tokens) :
        /\ serialized_example.column_ids[i] - 1 = coordinate[2]
        /\ serialized_example.row_ids[i] - 1 = coordinate[1]}

\* C10: with update_answer_coordinates off, the label ids of a query are 1 exactly
\* at the serialized tokens of the cells its (row, column) answer coordinates name
\* and 0 elsewhere, and labels are returned only if every named cell has a token;
\* "Couldn't find all answers" is raised, and no labels are kept for the query,
\* when a named cell has no token in the serialized example.
C10_CoordinateLabels ==
    /\ (pc \in {"query", "returned"} /\ position >= 1 /\ call.add_loss_variables) =>
          LET answers == Range(call.answer_coordinates[position])
              label_ids == features_examples[position].label_ids
          IN  /\ ~config.update_answer_coordinates
              /\ \A a \in answers : NamedTokens(a) /= {}
              /\ \A i \in 1..config.model_max_length :
                    label_ids[i] = IF \E a \in answers : i \in NamedTokens(a)
                                   THEN 1 ELSE 0
    /\ (pc = "raised" /\ raised = "Couldn't find all answers") =>
          /\ \E a \in Range(call.answer_coordinates[position + 1]) : NamedTokens(a) = {}
          /\ Len(position_to_label_ids) = position
          /\ encoded_inputs = None

\* C10 witness: the first query of a batch got its label, the second one names a
\* cell of a row that was dropped to fit and the call raised.
C10_Witness ==
    /\ pc = "raised"
    /\ raised = "Couldn't find all answers"
    /\ position = 1
    /\ \E i \in 1..config.model_max_length : position_to_label_ids[1][i] = 1
    /\ fit[1].num_rows < num_rows
    /\ call.answer_coordinates[2] = <<<<1, 0>>, <<0, 0>>>>
    /\ NamedTokens(<<0, 0>>) /= {}
    /\ NamedTokens(<<1, 0>>) = {}

\* the text of an answer occurs in the cell from token start on (from 0)
OccursAt(cell, segment, start) ==
    /\ start + Len(segment) <= Len(cell)
    /\ \A j \in 1..Len(segment) : cell[start + j] = segment[j]

\* the positions of the serialized example that hold the first occurrence of the
\* answer text in the cell at (row_index, col_index), None when the text does not
\* occur there or not all of these positions belong to the cell in the example
MatchedPositions(column_ids, row_ids, tt, row_index, col_index, segment) ==
    LET cell == tt.rows[row_index + 1][col_index + 1]
        starts == {start \in 0..Len(cell) : OccursAt(cell, segment, start)}
        first == CHOOSE start \in starts : \A other \in starts : start <= other
        indexes == {i \in 1..Len(column_ids) :
                       column_ids[i] = col_index + 1 /\ row_ids[i] = row_index}
        begin == CHOOSE i \in indexes : \A other \in indexes : i <= other
        positions == {begin + first + j : j \in 0..Len(segment) - 1}
    IN  IF starts = {} \/ indexes = {} THEN None
        ELSE IF positions \subseteq indexes THEN Some(positions) ELSE None

\* the positions labelled for one answer text: those of the first cell, in
\* row-major order after the header, that has matched positions
TextLabelPositions(column_ids, row_ids, tt, segment) ==
    LET matching == {k \in 1..Len(DataCells(tt)) :
                        MatchedPositions(column_ids, row_ids, tt, DataCells(tt)[k][1],
                                         DataCells(tt)[k][2], segment) /= None}
        k == CHOOSE first \in matching : \A other \in matching : first <= other
    IN  IF matching = {} THEN {}
        ELSE MatchedPositions(column_ids, row_ids, tt, DataCells(tt)[k][1],
                              DataCells(tt)[k][2], segment)[1]

\* C11: in text-match mode the search of the answer texts raises no error, and
\* the label ids of every encoded query are 1 exactly on the positions of the
\* first cell, in row-major order after the header, that holds the answer text
\* contiguously with all matched tokens in the serialized example, for each of
\* the query's answer texts; without such a cell the text sets no label
C11_TextMatchLabels ==
    (config.update_answer_coordinates /\ call.add_loss_variables) =>
        /\ raised /= "AttributeError"
        /\ \A p \in 1..Len(features_examples) :
              \A i \in 1..config.model_max_length :
                 features_examples[p].label_ids[i] = 1 <=>
                    \E a \in 1..Len(call.answer_texts[p]) :
                       i \in TextLabelPositions(features_examples[p].column_ids,
                                                features_examples[p].row_ids,
                                                tokenized_table,
                                                tokenize(call.answer_texts[p][a]))

\* the positions (from 0) of example i that belong to the cell at 0-based
\* (row, column): segment id 1, column id column + 1, row id row + 1
KeptTokens(i, row, column) ==
    {t \in 0..config.model_max_length - 1 :
        /\ features_examples[i].segment_ids[t + 1] = 1
        /\ features_examples[i].column_ids[t + 1] = column + 1
        /\ features_examples[i].row_ids[t + 1] = row + 1}

\* the probabilities of the tokens of the example whose logits are being decoded
TokenProbabilities == [t \in 1..Len(logits) |-> BernoulliProbs(logits[t])]

\* the cells (row, column) with a kept token whose mean probability is above the
\* threshold
CellsAbove(i, threshold) ==
    {rc \in (0..config.model_max_length) \X (0..config.model_max_length) :
        /\ KeptTokens(i, rc[1], rc[2]) /= {}
        /\ SumOver(TokenProbabilities, KeptTokens(i, rc[1], rc[2]))
               > threshold * Cardinality(KeptTokens(i, rc[1], rc[2]))}

\* column ids and row ids of example i are all 0
AllIdsZero(i) ==
    \A t \in 1..config.model_max_length :
        features_examples[i].column_ids[t] = 0 /\ features_examples[i].row_ids[t] = 0

\* the coordinates emitted for the example decoded last: the last list of the
\* batch of predictions, nothing for an example without column and row ids
Emitted ==
    IF AllIdsZero(num_decoded) THEN <<>>
    ELSE answer_coordinates_batch[Len(answer_coordinates_batch)]

\* C12: the coordinates emitted for a decoded example are exactly the 0-based
\* (row, column) of the cells that have at least one token with segment id 1 and
\* column id and row id at least 1 and whose mean probability over these tokens
\* is strictly above the threshold, in ascending order of (row, column) without
\* duplicates
C12_CellPredictions ==
    (pc = "decoding" /\ num_decoded >= 1) =>
        /\ {Emitted[k] : k \in 1..Len(Emitted)}
               = CellsAbove(num_decoded, cell_classification_threshold[1])
        /\ \A k \in 1..Len(Emitted) - 1 : TupleBefore(Emitted[k], Emitted[k + 1])

\* a cell of two tokens of probabilities 0 and 1, whose mean is the threshold 1/2,
\* is left out and the cell of the next row is emitted
C12_Witness ==
    /\ pc = "decoding"
    /\ num_decoded = 1
    /\ cell_classification_threshold = Some(1)
    /\ answer_coordinates_batch = <<<<<<1, 0>>>>>>
    /\ \E t \in KeptTokens(1, 0, 0) :
          /\ t + 1 \in KeptTokens(1, 0, 0)
          /\ logits[t + 1] = "-inf"
          /\ logits[t + 2] = "+inf"

\* the cells (row, column) of example i that have a token whose logit is +inf
CellsOfOnes(i) ==
    {rc \in (0..config.model_max_length) \X (0..config.model_max_length) :
        \E t \in KeptTokens(i, rc[1], rc[2]) : logits[t + 1] = "+inf"}

\* the probabilities are 1 on the tokens of the cells of X and 0 on every other
\* token of example i
OnesExactlyOn(i, X) ==
    \A t \in 0..config.model_max_length - 1 :
        /\ logits[t + 1] \in {"-inf", "+inf"}
        /\ logits[t + 1] = "+inf" <=> \E rc \in X : t \in KeptTokens(i, rc[1], rc[2])

\* C13: decoding, with threshold 1/2, probabilities that are 1 on the tokens of a
\* set X of cells with at least one serialized token each and 0 on all other
\* tokens gives exactly the coordinates (row, column) of X, in ascending order
C13_RoundTrip ==
    (/\ pc = "decoding"
     /\ num_decoded >= 1
     /\ cell_classification_threshold = Some(1)
     /\ OnesExactlyOn(num_decoded, CellsOfOnes(num_decoded))) =>
        /\ {Emitted[k] : k \in 1..Len(Emitted)} = CellsOfOnes(num_decoded)
        /\ \A k \in 1..Len(Emitted) - 1 : TupleBefore(Emitted[k], Emitted[k + 1])

\* X is the second cell of the first row and the first cell of the second row,
\* which the decoder collects in the other order
C13_Witness ==
    /\ pc = "decoding"
    /\ num_decoded = 1
    /\ cell_classification_threshold = Some(1)
    /\ CellsOfOnes(1) = {<<0, 1>>, <<1, 0>>}
    /\ OnesExactlyOn(1, CellsOfOnes(1))
    /\ KeptTokens(1, 0, 0) /= {}
    /\ answer_coordinates_batch = <<<<<<0, 1>>, <<1, 0>>>>>>

\* C14: the predictions hold one list per example of the batch, in batch order:
\* after each example, and in what is returned, there are as many lists as
\* examples decoded, the list at the place of the example decoded last being its
\* predicted coordinates, also when an example has no column and row ids
C14_PredictionsPerExample ==
    (pc \in {"decoding", "predicted"}) =>
        /\ Len(answer_coordinates_batch) = num_decoded
        /\ pc = "predicted" => num_decoded = Len(call.queries)
        /\ (pc = "decoding" /\ num_decoded >= 1) =>
              {answer_coordinates_batch[num_decoded][k] :
                  k \in 1..Len(answer_coordinates_batch[num_decoded])}
                  = CellsAbove(num_decoded, cell_classification_threshold[1])

AllZeros(ids) == \A t \in 1..Len(ids) : ids[t] = 0

\* C15: with answers supplied, prev_label_ids of the query at position 0 is all
\* zeros and prev_label_ids of the query at every later position is the label_ids
\* produced for the query just before it; without answers prev_label_ids is all
\* zeros for every query; the returned token_type_ids carry the same values
C15_PrevLabelIds ==
    /\ \A p \in 1..Len(features_examples) :
          /\ Len(features_examples[p].prev_label_ids) = config.model_max_length
          /\ IF call.add_loss_variables /\ p >= 2
             THEN features_examples[p].prev_label_ids = features_examples[p - 1].label_ids
             ELSE AllZeros(features_examples[p].prev_label_ids)
    /\ pc = "returned" =>
          \A p \in 1..Len(call.queries) : \A t \in 1..config.model_max_length :
             encoded_inputs[1].token_type_ids[p][t][4]
                 = (IF call.add_loss_variables /\ p >= 2
                    THEN encoded_inputs[1].label_ids[p - 1][t] ELSE 0)

\* the first query has an answer, the second has none: its prev_label_ids are
\* not all zeros and differ from its own label_ids
C15_Witness ==
    /\ pc = "returned"
    /\ call.add_loss_variables
    /\ Len(features_examples) = 2
    /\ ~AllZeros(features_examples[2].prev_label_ids)
    /\ AllZeros(features_examples[2].label_ids)
    /\ ~AllZeros(features_examples[1].label_ids)

\* the features of one query encoded on its own against the table, without
\* prev_label_ids
AloneFeatures(cfg, tab, query, with_answers, answer_coordinates_question) ==
    LET question_tokens == tokenize(query)
        tt == _tokenize_table(tab, cfg.strip_column_names)
        nrows == IF Len(tab.rows) >= cfg.max_row_id THEN cfg.max_row_id - 1
                 ELSE Len(tab.rows)
        found == TrimLoop(cfg, question_tokens, tt, Len(tab.columns), nrows)
        example == _serialize(question_tokens, tt, Len(tab.columns), found[1].num_rows,
                              found[1].num_tokens)
        column_ids == _pad_to_seq_length(example.column_ids, cfg.model_max_length)
        row_ids == _pad_to_seq_length(example.row_ids, cfg.model_max_length)
        ctnv == ColumnsToNumericValues(tab)
        ranks == _add_numeric_column_ranks(column_ids, row_ids, tab, ctnv)
    IN  [input_ids |-> _pad_to_seq_length(convert_tokens_to_ids(example.tokens),
                                          cfg.model_max_length),
         attention_mask |-> _pad_to_seq_length([i \in 1..Len(example.tokens) |-> 1],
                                               cfg.model_max_length),
         segment_ids |-> _pad_to_seq_length(example.segment_ids, cfg.model_max_length),
         column_ids |-> column_ids,
         row_ids |-> row_ids,
         column_ranks |-> ranks.ranks,
         inv_column_ranks |-> ranks.inv_ranks,
         numeric_relations |->
             _add_numeric_relations(column_ids, row_ids,
                                    CellIndicesToRelations(query, tab, ctnv)),
         numeric_values |->
             _add_numeric_values(tab, column_ids, row_ids, ctnv, cfg.model_max_length),
         numeric_values_scale |->
             _add_numeric_values_scale(tab, column_ids, row_ids, cfg.model_max_length),
         label_ids |->
             IF with_answers
             THEN _pad_to_seq_length(
                      _get_all_answer_ids_from_coordinates(
                          example.column_ids, example.row_ids,
                          _to_coordinates(answer_coordinates_question)).answer_ids,
                      cfg.model_max_length)
             ELSE <<>>]

\* what one step of the batch call does to the shared inputs and to the features
\* of the queries: the arguments and the tokenized table stay as they are, the
\* features of the finished queries stay as they are, and the features added for
\* a query are, prev_label_ids apart, those of the query encoded alone
QueryFrame ==
    /\ call' = call
    /\ config' = config
    /\ pc /= "start" => tokenized_table' = tokenized_table
    /\ Len(features_examples') >= Len(features_examples)
    /\ \A p \in 1..Len(features_examples) : features_examples'[p] = features_examples[p]
    /\ Len(features_examples') > Len(features_examples) =>
          \A alone \in {AloneFeatures(config, call.table, call.queries[position + 1],
                                      call.add_loss_variables,
                                      IF call.add_loss_variables
                                      THEN call.answer_coordinates[position + 1]
                                      ELSE <<>>)} :
             \A key \in (FeatureKeys \cup {"label_ids"}) \ {"prev_label_ids"} :
                features_examples'[Len(features_examples')][key] = alone[key]

QueryFails(p) ==
    LET question_tokens == tokenize(call.queries[p])
        found == TrimLoop(config, question_tokens, tokenized_table, num_columns, num_rows)
        example == _serialize(question_tokens, tokenized_table, num_columns,
                              found[1].num_rows, found[1].num_tokens)
    IN  \/ found = None
        \/ Len(example.tokens) > config.model_max_length
        \/ NumericValuesKeyError(call.table, ColumnsToNumericValues(call.table))
        \/ /\ call.add_loss_variables
           /\ ~config.update_answer_coordinates
           /\ _get_all_answer_ids(example.column_ids, example.row_ids,
                                  call.answer_coordinates[p]).missing_count /= 0

\* C17: the batch call either returns the features of every query of the batch,
\* or raises at the first query, in batch order, that cannot be fitted or
\* aligned: nothing is returned then, the queries before it were processed and
\* the queries after it are not
C17_AllOrNothing ==
    /\ raised /= "" <=> pc = "raised"
    /\ \A p \in 1..Len(features_examples) : ~QueryFails(p)
    /\ pc = "raised" =>
          /\ encoded_inputs = None
          /\ Len(features_examples) = position
          /\ position < Len(call.queries)
          /\ QueryFails(position + 1)
          /\ ~ENABLED Next
    /\ encoded_inputs /= None =>
          /\ pc = "returned"
          /\ Len(features_examples) = Len(call.queries)
          /\ Len(encoded_inputs[1].input_ids) = Len(call.queries)
          /\ \A p \in 1..Len(call.queries) :
                encoded_inputs[1].input_ids[p] = features_examples[p].input_ids

\* the second query of a batch cannot be aligned after the first one was encoded
C17_Witness ==
    /\ pc = "raised"
    /\ raised = "Couldn't find all answers"
    /\ Len(call.queries) = 2
    /\ position = 1
    /\ Len(features_examples) = 1
    /\ encoded_inputs = None

\* the table has more rows than max_row_id and rows are not dropped to fit
RowsExceeded ==
    ~config.drop_rows_to_fit /\ Len(call.table.rows) > config.max_row_id

\* C18: once the table has been measured, 'Too many rows' has been raised if and
\* only if rows are not dropped to fit and the row count is greater than
\* max_row_id, and (the rows passing) 'Too many columns' has been raised if and
\* only if the column count is greater than max_column_id; a table with exactly
\* max_column_id columns and max_row_id rows is not rejected
C18_HardCaps ==
    pc /= "start" =>
        /\ raised = "Too many rows" <=> RowsExceeded
        /\ raised = "Too many columns" <=>
              (~RowsExceeded /\ Len(call.table.columns) > config.max_column_id)

\* the table cost of the cap k for the query being fitted, with nrows rows
CostOfCap(nrows, k) == _get_table_cost(tokenized_table, num_columns, nrows, k)

\* the cap is the largest one in 0..max_num_tokens whose cost is within the budget
LargestCapWithin(nrows, k, token_budget, max_num_tokens) ==
    /\ k \in 0..max_num_tokens
    /\ CostOfCap(nrows, k) <= token_budget
    /\ k = max_num_tokens \/ CostOfCap(nrows, k + 1) > token_budget
    /\ \A larger \in k + 1..max_num_tokens : CostOfCap(nrows, larger) > token_budget

\* C19: with dynamic trimming, for the query that has been through the fitting
\* loop and every number of rows the loop may try, a cap returned by
\* _get_max_num_tokens is the largest cap in 0..max_num_tokens whose table cost
\* is at most the budget model_max_length - (number of question tokens + 2)
C19_LargestCap ==
    (/\ config.cell_trim_length < 0
     /\ pc = "serialized" \/ raised \in {"Sequence too long", "AssertionError"}) =>
        \A nrows \in 0..num_rows :
           \A k \in {_get_max_num_tokens(config, QuestionTokens, tokenized_table,
                                         num_columns, nrows)} :
              k /= None =>
                 LargestCapWithin(nrows, k[1],
                                  config.model_max_length - (Len(QuestionTokens) + 2),
                                  _get_table_boundaries_tokens(tokenized_table))

\* the tokens _get_table_values emits for the cell at row_index (0 the header)
\* and column_index, in order
EmittedOfCell(values, row_index, column_index) ==
    LET of_cell == SelectSeq(values, LAMBDA v : v.row_id = row_index
                                                /\ v.column_id = column_index + 1)
    IN  [i \in 1..Len(of_cell) |-> of_cell[i].token]

\* the number of leading tokens of the cell that start before the cap k or carry
\* on, as inner word pieces, the word that is under way at the cap
WholeWordPrefix(cell, k) ==
    Cardinality({t \in 0..Len(cell) - 1 :
                    t < k \/ \A j \in k..t : _is_inner_wordpiece(cell[j + 1])})

\* the caps to try: from none to one more than the longest cell
CapsOf(tt) == 0.._get_table_boundaries_tokens(tt) + 1

TokenEmitted(row_index, column_index, token_index, k) ==
    TableValueSelected(tokenized_table,
                       TokenCoordinates(row_index, column_index, token_index),
                       num_columns, num_rows, k)

\* C21: for any cell and any cap, a continuation piece ('##') is emitted by
\* _get_table_values if and only if the token before it in the cell is, so the
\* pieces of a word are emitted all together or not at all
C21_WordsNotSplit ==
    pc = "serialized" =>
        \A k \in CapsOf(tokenized_table) :
           \A r \in 0..num_rows, c \in 0..num_columns - 1 :
              \A t \in 1..Len(tokenized_table.rows[r + 1][c + 1]) - 1 :
                 _is_inner_wordpiece(tokenized_table.rows[r + 1][c + 1][t + 1]) =>
                    (TokenEmitted(r, c, t, k) <=> TokenEmitted(r, c, t - 1, k))

\* the cap 1 found by the dynamic search leaves out both pieces of the word "ab"
\* of the cell "7 ab" of the first row, the cap 2 would emit both
C21_Witness ==
    /\ pc = "serialized"
    /\ num_rows >= 1
    /\ fit = Some([num_rows |-> num_rows, num_tokens |-> 1])
    /\ tokenized_table.rows[2][1] = <<"7", "a", "##b">>
    /\ Cardinality({i \in 1..Len(serialized_example.tokens) :
                       serialized_example.row_ids[i] = 1
                       /\ serialized_example.column_ids[i] = 1}) = 1
    /\ TokenEmitted(1, 0, 1, 2) /\ TokenEmitted(1, 0, 2, 2)

\* min(cell_trim_length, longest cell token count)
FixedCap == Min(config.cell_trim_length, _get_table_boundaries_tokens(tokenized_table))

\* C22: with a fixed cell_trim_length >= 0, for the query that has been through
\* the fitting loop and every number of rows the loop may try, _get_max_num_tokens
\* returns exactly min(cell_trim_length, longest cell token count) when the table
\* trimmed to that cap fits the budget and rejects otherwise; it never returns a
\* smaller cap
C22_FixedCapOrReject ==
    (/\ config.cell_trim_length >= 0
     /\ pc = "serialized" \/ raised \in {"Sequence too long", "AssertionError"}) =>
        \A nrows \in 0..num_rows :
           \A k \in {_get_max_num_tokens(config, QuestionTokens, tokenized_table,
                                         num_columns, nrows)} :
              /\ k \in {None, Some(FixedCap)}
              /\ k /= None <=>
                    CostOfCap(nrows, FixedCap)
                        <= config.model_max_length - (Len(QuestionTokens) + 2)

\* the cap search finds no cap for the query being fitted with n rows
RowsRejected(n) ==
    _get_max_num_tokens(config, QuestionTokens, tokenized_table, num_columns, n) = None

\* where the loop of _to_trimmed_features stands: the row counts above the
\* current one were tried and rejected; it leaves with the first count for which
\* a cap is found, serializing no row beyond it, and raises 'Sequence too long'
\* after the rejection of 0 rows, or of the first count when rows are not dropped
TrimLoopState ==
    /\ pc = "trimming" =>
          /\ trim_rows \in 0..num_rows
          /\ trim_rows < num_rows => config.drop_rows_to_fit
          /\ \A m \in trim_rows + 1..num_rows : RowsRejected(m)
    /\ (pc = "serialized" \/ raised = "AssertionError") =>
          /\ fit /= None
          /\ fit[1].num_rows = trim_rows
          /\ trim_rows \in 0..num_rows
          /\ ~RowsRejected(trim_rows)
          /\ \A m \in trim_rows + 1..num_rows : RowsRejected(m)
          /\ fit = TrimLoop(config, QuestionTokens, tokenized_table, num_columns, num_rows)
          /\ \A i \in 1..Len(serialized_example.row_ids) :
                serialized_example.row_ids[i] \in 0..trim_rows
    /\ raised = "Sequence too long" =>
          /\ \A m \in trim_rows..num_rows : RowsRejected(m)
          /\ trim_rows = (IF config.drop_rows_to_fit THEN 0 ELSE num_rows)
          /\ TrimLoop(config, QuestionTokens, tokenized_table, num_columns, num_rows) = None

\* the row counts are tried in the order initial, initial - 1, ..., one at a time
TrimLoopStep ==
    trim_rows' /= trim_rows =>
        \/ pc = "query" /\ trim_rows' = num_rows
        \/ /\ pc = "trimming"
           /\ trim_rows' = trim_rows - 1
           /\ config.drop_rows_to_fit
           /\ RowsRejected(trim_rows)

\* C23: with drop_rows_to_fit on, _to_trimmed_features runs the cap search for
\* the row counts initial, initial - 1, ..., 0 in that order and stops at the
\* first count for which a cap is found, so that count is the largest that fits
\* and no later row is serialized; it raises 'Sequence too long' only after 0
\* rows were rejected, or after the first rejection with drop_rows_to_fit off;
\* and the loop always ends
C23_RowDropping ==
    /\ []TrimLoopState
    /\ [][TrimLoopStep]_vars
    /\ (pc = "trimming") ~> (pc \in {"serialized", "raised"})

\* one of two rows was dropped before a cap was found
C23_Witness ==
    /\ pc = "serialized"
    /\ num_rows = 2
    /\ trim_rows = 1
    /\ fit[1].num_rows = 1
    /\ \E i \in 1..Len(serialized_example.row_ids) : serialized_example.row_ids[i] = 1

\* the bitmask of a set of relations: EQ is 1, LT is 2, GT is 4
RelationBits(relations) ==
    (IF EQ \in relations THEN 1 ELSE 0) + (IF LT \in relations THEN 2 ELSE 0)
        + (IF GT \in relations THEN 4 ELSE 0)

\* C24: the numeric_relations value of every token of a cell is the bitmask of
\* the set of distinct relations the cell has with the numeric values of the
\* question (EQ 1, LT 2, GT 4, each at most once), so it lies in 0..7; it is 0
\* exactly for the tokens of cells without a relation and for every token that
\* is not of a cell.
C24_RelationBitmask ==
    pc \in {"relations", "values", "features"} =>
        /\ Len(features.numeric_relations) = config.model_max_length
        /\ \A i \in 1..config.model_max_length :
              \A c \in {features.column_ids[i] - 1} : \A r \in {features.row_ids[i] - 1} :
                 /\ features.numeric_relations[i] \in 0..7
                 /\ IF /\ c \in DOMAIN columns_to_numeric_values
                       /\ r \in DOMAIN columns_to_numeric_values[c]
                    THEN \A relations \in {RelationsOfCell(c, columns_to_numeric_values[c][r])} :
                            /\ features.numeric_relations[i] = RelationBits(relations)
                            /\ features.numeric_relations[i] = 0 <=> relations = {}
                    ELSE features.numeric_relations[i] = 0

\* C24 witness: the question values 3 and 7 against a column with the cells
\* '7 ab', '3' and 'x': the tokens of the first cell carry EQ and LT (3), those
\* of the second EQ and GT (5), that of the third 0.
C24_Witness ==
    /\ pc = "relations"
    /\ call.queries[position + 1] = <<"3", "7">>
    /\ call.table.rows = <<<<<<"7", "ab">>>>, <<<<"3">>>>, <<<<"x">>>>>>
    /\ cell_indices_to_relations[<<0, 0>>] = {EQ, LT}
    /\ cell_indices_to_relations[<<0, 1>>] = {EQ, GT}
    /\ \A i \in 1..config.model_max_length :
          /\ features.row_ids[i] = 1 => features.numeric_relations[i] = 3
          /\ features.row_ids[i] = 2 => features.numeric_relations[i] = 5
          /\ features.row_ids[i] = 3 => features.numeric_relations[i] = 0
    /\ \A r \in 1..3 : \E i \in 1..config.model_max_length : features.row_ids[i] = r

\* column c has values that are not mutually comparable: numbers mixed with
\* dates, or dates without a field that all of them have
NotComparable(c) == ColumnValueSet(c) /= {} /\ ~Comparable(ColumnValueSet(c))

\* the state _add_numeric_column_ranks leaves: it has returned, every token of a
\* column that is not comparable has both ranks 0, and every token of a cell with
\* a value in a comparable column has the ranks of its value among the values of
\* its own column
RanksWithSkippedColumns ==
    /\ pc = "ranks"
    /\ raised = ""
    /\ Len(features.column_ranks) = config.model_max_length
    /\ Len(features.inv_column_ranks) = config.model_max_length
    /\ \A i \in 1..config.model_max_length :
          \A c \in {features.column_ids[i] - 1} : \A r \in {features.row_ids[i] - 1} :
             c \in DOMAIN columns_to_numeric_values =>
                IF NotComparable(c)
                THEN features.column_ranks[i] = 0 /\ features.inv_column_ranks[i] = 0
                ELSE r \in DOMAIN columns_to_numeric_values[c] =>
                        \A values \in {ColumnValueSet(c)} :
                           /\ features.column_ranks[i]
                                 = 1 + Cardinality(SmallerKeys(values, columns_to_numeric_values[c][r]))
                           /\ features.column_ranks[i] + features.inv_column_ranks[i]
                                 = Cardinality({SortKey(values, w) : w \in values}) + 1

\* C25: a column whose parsed values are not mutually comparable is skipped
\* without raising: _add_numeric_column_ranks always returns, all tokens of such
\* a column keep column_rank 0 and inv_column_rank 0, and every other column has
\* the ranks of its own values, whether or not a column was skipped.
C25_SkippedColumn ==
    [][pc = "padded" => RanksWithSkippedColumns']_vars

\* C25 witness: the first column holds a number and a date and is skipped, the
\* second column holds numbers and its tokens are ranked
C25_Witness ==
    /\ pc = "ranks"
    /\ Len(call.table.columns) = 2
    /\ NotComparable(0)
    /\ \E v, w \in ColumnValueSet(0) : v.float_value /= None /\ w.float_value = None
    /\ Comparable(ColumnValueSet(1))
    /\ \E i \in 1..config.model_max_length :
          features.column_ids[i] = 1 /\ features.row_ids[i] >= 1
    /\ \A i \in 1..config.model_max_length :
          features.column_ids[i] = 1 => features.column_ranks[i] = 0
    /\ \E i \in 1..config.model_max_length :
          features.column_ids[i] = 2 /\ features.column_ranks[i] >= 1

\* the lists of values get_numeric_sort_key_fn is called with for the current
\* query: the values of a column that has some (_add_numeric_column_ranks), and
\* these followed by a value of the question (_get_numeric_sort_key_fn)
SortKeyInputs ==
    UNION {{column_values} \cup {column_values \o <<value>> : value \in QuestionValues} :
           column_values \in {DictValues(columns_to_numeric_values[c],
                                         DOMAIN columns_to_numeric_values[c]) :
                                c \in {d \in DOMAIN columns_to_numeric_values :
                                         DOMAIN columns_to_numeric_values[d] /= {}}}}

\* numbers mixed with dates
MixedTypes(values) ==
    \E v, w \in values : v.float_value /= None /\ w.float_value = None

\* dates only, without a field that every one of them has
NoCommonField(values) ==
    (\A v \in values : v.float_value = None) /\ CommonFields(values) = {}

\* C26: get_numeric_sort_key_fn raises ValueError if the values mix numbers and
\* dates, raises ValueError if they are all dates and none of year, month, day is
\* populated in every value, and returns a key function otherwise; it never
\* returns a key function for a mixed or field-disjoint set.
C26_SortKeyValueError ==
    pc \in {"ranks", "relations", "values", "features"} =>
        \A numeric_values \in SortKeyInputs :
            \A key_fn \in {get_numeric_sort_key_fn(numeric_values)} :
                /\ MixedTypes(Range(numeric_values)) => key_fn = None
                /\ NoCommonField(Range(numeric_values)) => key_fn = None
                /\ (~MixedTypes(Range(numeric_values)) /\ ~NoCommonField(Range(numeric_values)))
                      => key_fn /= None

\* C26 witness: for the question '2010' (a number and a year), a first column of
\* the dates '2010s' and 'may' has no common field, a second column of numbers
\* gets a key function with the number of the question and none with its date
C26_Witness ==
    /\ pc = "relations"
    /\ call.queries[position + 1] = <<"2010">>
    /\ Len(call.table.columns) = 2
    /\ NoCommonField(ColumnValueSet(0))
    /\ \E numeric_values \in SortKeyInputs :
          NoCommonField(Range(numeric_values)) /\ get_numeric_sort_key_fn(numeric_values) = None
    /\ \E numeric_values \in SortKeyInputs :
          MixedTypes(Range(numeric_values)) /\ get_numeric_sort_key_fn(numeric_values) = None
    /\ \E numeric_values \in SortKeyInputs :
          /\ Range(numeric_values) = ColumnValueSet(1) \cup {NumericValueFloat(2010)}
          /\ get_numeric_sort_key_fn(numeric_values) /= None

\* the fields populated in every value, in the order year, month, day
CommonFieldsInOrder(values) ==
    SelectSeq(<<"year", "month", "day">>, LAMBDA f : f \in CommonFields(values))

\* C27: for a set of dates that get_numeric_sort_key_fn accepts, the key function
\* maps each date to the tuple of exactly the fields populated in every value of
\* the set, in the order (year, month, day); for the dates (year 2007, month 8)
\* and (year 2010) the key is the year only and get_numeric_relation of the first
\* against the second is LT.
C27_DateKeyCommonFields ==
    /\ pc \in {"ranks", "relations", "values", "features"} =>
          \A numeric_values \in SortKeyInputs :
              \A key_fn \in {get_numeric_sort_key_fn(numeric_values)} :
                  (key_fn /= None /\ \A v \in Range(numeric_values) : v.float_value = None) =>
                      \A fields \in {CommonFieldsInOrder(Range(numeric_values))} :
                          \A v \in Range(numeric_values) :
                              /\ Len(ApplyKey(key_fn[1], v)) = Len(fields)
                              /\ \A i \in 1..Len(fields) :
                                    ApplyKey(key_fn[1], v)[i] = v.date[1][fields[i]][1]
    /\ pc = "ranks" =>
          \A first \in {NumericValueDate(Some(2007), Some(8), None)} :
              \A second \in {NumericValueDate(Some(2010), None, None)} :
                  \A key_fn \in {get_numeric_sort_key_fn(<<first, second>>)} :
                      /\ key_fn /= None
                      /\ ApplyKey(key_fn[1], first) = <<2007>>
                      /\ ApplyKey(key_fn[1], second) = <<2010>>
                      /\ get_numeric_relation(first, second, key_fn[1]) = Some(LT)

\* C27 witness: a column of the dates '3 may' and '7 may' and the question
\* '3 may 2010': the column alone has the key (month, day), with the date of the
\* question as well, and the cells have the relations EQ and LT
C27_Witness ==
    /\ pc = "relations"
    /\ call.queries[position + 1] = <<"3", "may", "2010">>
    /\ ColumnValueSet(0) = {NumericValueDate(None, Some(5), Some(3)),
                            NumericValueDate(None, Some(5), Some(7))}
    /\ \E numeric_values \in SortKeyInputs :
          /\ Len(numeric_values) = 3
          /\ NumericValueDate(Some(2010), Some(5), Some(3)) \in Range(numeric_values)
          /\ CommonFieldsInOrder(Range(numeric_values)) = <<"month", "day">>
          /\ ApplyKey(get_numeric_sort_key_fn(numeric_values)[1], numeric_values[3]) = <<5, 3>>
    /\ \E cr, cs \in DOMAIN cell_indices_to_relations :
          cell_indices_to_relations[cr] = {EQ} /\ cell_indices_to_relations[cs] = {LT}

\* the texts parse_text is called with for the current query: the question and
\* the cells of the table
ParsedTexts ==
    {call.queries[position + 1]}
    \cup {call.table.rows[r][c] : r \in 1..Len(call.table.rows), c \in 1..Len(call.table.columns)}

\* the returned spans do not share a character position
SpansDisjoint(spans) ==
    \A i, j \in 1..Len(spans) :
        i /= j => (spans[i].end_index <= spans[j].begin_index
                   \/ spans[j].end_index <= spans[i].begin_index)

\* no returned span lies within another one
SpansNotNested(spans) ==
    \A i, j \in 1..Len(spans) :
        i /= j => ~(spans[j].begin_index <= spans[i].begin_index
                    /\ spans[i].end_index <= spans[j].end_index)

\* every span that has a value lies within a returned span
SpansCover(spans, candidates) ==
    \A candidate \in candidates :
        \E i \in 1..Len(spans) :
            spans[i].begin_index <= candidate[1] /\ candidate[2] <= spans[i].end_index

\* the returned spans are in the order of their start index
SpansOrdered(spans) ==
    \A i \in 1..Len(spans) - 1 : spans[i].begin_index < spans[i + 1].begin_index

\* C28: for any text, the spans returned by parse_text are maximal and
\* non-overlapping: no two returned spans share a character position, no
\* returned span is contained in another, every candidate span with a value is
\* contained in some returned span, and the returned spans are ordered by start
\* index.
C28_MaximalNonOverlapping ==
    pc = "relations" =>
        \A text \in ParsedTexts :
            \A spans \in {parse_text(text)} :
                /\ SpansDisjoint(spans)
                /\ SpansNotNested(spans)
                /\ SpansCover(spans, DOMAIN SpanDict(text))
                /\ SpansOrdered(spans)

\* C29: whenever the loop of _to_trimmed_features leaves with a cap instead of
\* raising 'Sequence too long', the serialized example has at most
\* model_max_length tokens, for every question length, table (a table without
\* tokens included) and cell_trim_length (0 included): the assertion on the
\* serialized length never fails, and padding to model_max_length keeps every
\* token of the serialized example.
C29_AssertionNeverFails ==
    /\ raised /= "AssertionError"
    /\ pc = "serialized" => Len(serialized_example.tokens) <= config.model_max_length
    /\ pc = "padded" =>
          /\ Len(serialized_example.tokens) <= Len(features.segment_ids)
          /\ \A i \in 1..Len(serialized_example.tokens) :
                /\ features.segment_ids[i] = serialized_example.segment_ids[i]
                /\ features.column_ids[i] = serialized_example.column_ids[i]
                /\ features.row_ids[i] = serialized_example.row_ids[i]

\* the logits give probability 1 to the tokens whose label id is 1 and 0 to every
\* other token of example i
LabelsAsProbabilities(i) ==
    logits = [t \in 1..config.model_max_length |->
                 IF encoded_inputs[1].label_ids[i][t] = 1 THEN "+inf" ELSE "-inf"]

\* C30: for an example encoded with a set A of 0-based (row, column) answer
\* coordinates that the alignment by coordinates accepted, decoding its label_ids
\* as per-token probabilities, with threshold 1/2 and the segment, column and row
\* ids of the example, gives exactly the distinct coordinates of A in ascending
\* order of (row, column); an example without a table token, whose A is empty,
\* gets no coordinate.
C30_LabelRoundTrip ==
    (/\ pc = "decoding"
     /\ num_decoded >= 1
     /\ call.add_loss_variables
     /\ cell_classification_threshold = Some(1)
     /\ LabelsAsProbabilities(num_decoded)) =>
        /\ {Emitted[k] : k \in 1..Len(Emitted)} = Range(call.answer_coordinates[num_decoded])
        /\ \A k \in 1..Len(Emitted) - 1 : TupleBefore(Emitted[k], Emitted[k + 1])

\* C30 witness: the cells of two rows given out of order, one of them twice, come
\* back once each and in order
C30_Witness ==
    /\ pc = "decoding"
    /\ num_decoded = 1
    /\ cell_classification_threshold = Some(1)
    /\ call.answer_coordinates[1] = <<<<1, 0>>, <<0, 0>>, <<1, 0>>>>
    /\ LabelsAsProbabilities(1)
    /\ \E t \in 1..config.model_max_length : encoded_inputs[1].label_ids[1][t] = 1
    /\ answer_coordinates_batch = <<<<<<0, 0>>, <<1, 0>>>>>>
====
